---- MODULE Spec2Model ----
(***************************************************************************)
(* Verification model of the PyGFrame semantic analyser (src/semantico.py): *)
(* the type system, the scoped symbol table, the error reporter, the        *)
(* semantic error detector and the SemanticAnalyzer.analyze() pipeline, and  *)
(* of the three-address code generator and interpreter                      *)
(* (src/codigo_intermedio.py).                                              *)
(*                                                                          *)
(* Python values are modelled as follows.                                   *)
(*   - None is the record None below, unequal to every record of the model; *)
(*     where the code holds an Optional[str] it is the string NoneStr.      *)
(*   - a dataclass instance is a record with the dataclass's fields.        *)
(*   - a list is a sequence.                                                *)
(*   - a dict is a sequence of [key, value] records in insertion order      *)
(*     (Python dicts keep insertion order); see DictHas/DictGet/DictSet.    *)
(*   - a method that mutates its object and returns a value is an operator  *)
(*     that yields [st |-> the object afterwards, ret |-> the value].       *)
(*   - an f-string is the sequence of its pieces (literal text and          *)
(*     formatted fields), except for scope ids, which are real strings.     *)
(***************************************************************************)
EXTENDS Integers, Sequences, FiniteSets, TLC

VARIABLES
    symbol_table,    \* the SymbolTable instance under test / owned by the analyzer
    error_reporter,  \* the ErrorReporter instance
    last_call,       \* the last API call made by the harness: [op, params, ret]
    ast,             \* SemanticAnalyzer.ast: the input tree (or None)
    annotated_ast,   \* SemanticAnalyzer.annotated_ast
    phase,           \* position inside analyze(): the phase that runs next
    run,             \* 1 or 2: which SemanticAnalyzer instance is running
    first_run,       \* what the first instance returned (None while it runs)
    generator,       \* the TACGenerator instance (None before it is constructed)
    vm               \* the TACInterpreter instance (None before it is constructed)

vars == <<symbol_table, error_reporter, last_call, ast, annotated_ast, phase, run, first_run,
          generator, vm>>

None == [tag |-> "None"]

\* None where the code holds an Optional[str]: TLC cannot compare a string with a
\* record, so a string that no scope name and no scope id equals stands for it.
NoneStr == "<None>"

Range(s) == {s[i] : i \in DOMAIN s}

\* a local variable: value is computed once and Body sees the result
\* (Python evaluates the right-hand side of an assignment exactly once)
Let(value, Body(_)) == CHOOSE out \in {Body(v) : v \in {value}} : TRUE

(***************************************************************************)
(* Bounds of the model.                                                     *)
(***************************************************************************)
MaxScopeId == 2    \* enter_scope is called while current_scope_id < MaxScopeId
MaxDecls == 2      \* successful declare_variable calls in the API harness

MEMORY_BASE == 1000
MEMORY_STEP == 4

Names == {"x", "y"}
ScopeNames == {"if_1"}

(***************************************************************************)
(* Python dict: insertion-ordered key/value pairs.                          *)
(***************************************************************************)
DictHas(d, k) == \E i \in DOMAIN d : d[i].key = k

DictGet(d, k) == d[CHOOSE i \in DOMAIN d : d[i].key = k].value

DictSet(d, k, v) ==
    IF DictHas(d, k)
    THEN LET i == CHOOSE j \in DOMAIN d : d[j].key = k
         IN SubSeq(d, 1, i - 1) \o <<[key |-> k, value |-> v]>> \o SubSeq(d, i + 1, Len(d))
    ELSE Append(d, [key |-> k, value |-> v])

DictValues(d) == [i \in DOMAIN d |-> d[i].value]

(***************************************************************************)
(* TypeInfo                                                                 *)
(***************************************************************************)
BaseTypes == {"int", "float", "boolean", "void"}

TypeInfo(base_type) == [base_type |-> base_type, is_array |-> FALSE, array_size |-> None]

ArrayTypeInfo(base_type) == [base_type |-> base_type, is_array |-> TRUE, array_size |-> None]

is_numeric(t) == t.base_type \in {"int", "float"}

\* TypeInfo.__str__
TypeStr(t) ==
    IF t.is_array
    THEN IF t.array_size # None
         THEN <<t.base_type, "[", t.array_size, "]">>
         ELSE <<t.base_type, "[]">>
    ELSE <<t.base_type>>

TIPO_INT == TypeInfo("int")
TIPO_FLOAT == TypeInfo("float")
TIPO_VOID == TypeInfo("void")
TIPO_BOOLEAN == TypeInfo("boolean")

crear_tipo_desde_string(tipo_str) ==
    IF tipo_str \in BaseTypes
    THEN CHOOSE t \in {TIPO_INT, TIPO_FLOAT, TIPO_VOID, TIPO_BOOLEAN} : t.base_type = tipo_str
    ELSE TypeInfo(tipo_str)

(***************************************************************************)
(* SymbolTable                                                              *)
(***************************************************************************)
ScopeId(scope_name, id) == scope_name \o "_" \o ToString(id)

enter_scope(st, scope_name) ==
    LET name == IF scope_name = NoneStr
                THEN "scope_" \o ToString(st.current_scope_id)
                ELSE scope_name
        scope_id == ScopeId(name, st.current_scope_id)
    IN [st |-> [st EXCEPT !.current_scope_id = st.current_scope_id + 1,
                          !.scopes = Append(st.scopes, scope_id),
                          !.symbols = DictSet(st.symbols, scope_id, <<>>)],
        ret |-> scope_id]

SymbolTable_init ==
    enter_scope([scopes |-> <<>>, symbols |-> <<>>, current_scope_id |-> 0,
                 memory_counter |-> MEMORY_BASE], "global").st

\* exit_scope without the guard on the last remaining scope
exit_scope_unguarded(st) ==
    [st |-> [st EXCEPT !.scopes = SubSeq(st.scopes, 1, Len(st.scopes) - 1)],
     ret |-> st.scopes[Len(st.scopes)]]

exit_scope(st) ==
    IF Len(st.scopes) > 1
    THEN [st |-> [st EXCEPT !.scopes = SubSeq(st.scopes, 1, Len(st.scopes) - 1)],
          ret |-> st.scopes[Len(st.scopes)]]
    ELSE [st |-> st, ret |-> NoneStr]

get_current_scope(st) == IF st.scopes # <<>> THEN st.scopes[Len(st.scopes)] ELSE NoneStr

is_declared_in_current_scope(st, name) ==
    LET current_scope == get_current_scope(st)
    IN DictHas(st.symbols, current_scope) /\ DictHas(DictGet(st.symbols, current_scope), name)

\* the success path of declare_variable
DeclareIn(st, name, type_info, line, column) ==
    LET current_scope == get_current_scope(st)
        symbol_entry == [name |-> name, type_info |-> type_info,
                         scope |-> current_scope, line |-> line,
                         column |-> column,
                         memory_address |-> st.memory_counter,
                         is_initialized |-> FALSE]
        symbols1 == IF DictHas(st.symbols, current_scope)
                    THEN st.symbols
                    ELSE DictSet(st.symbols, current_scope, <<>>)
        symbols2 == DictSet(symbols1, current_scope,
                            DictSet(DictGet(symbols1, current_scope),
                                    name, symbol_entry))
    IN [st |-> [st EXCEPT !.symbols = symbols2,
                          !.memory_counter = st.memory_counter + MEMORY_STEP],
        ret |-> TRUE]

\* declare_variable rejecting a name that any scope on the stack declares
declare_variable_any_scope(st, name, type_info, line, column) ==
    IF \E i \in DOMAIN st.scopes :
          DictHas(st.symbols, st.scopes[i]) /\ DictHas(DictGet(st.symbols, st.scopes[i]), name)
    THEN [st |-> st, ret |-> FALSE]
    ELSE DeclareIn(st, name, type_info, line, column)

\* declare_variable advancing memory_counter only in the global scope
declare_variable_stale_counter(st, name, type_info, line, column) ==
    LET current_scope == get_current_scope(st)
    IN IF DictHas(st.symbols, current_scope)
          /\ DictHas(DictGet(st.symbols, current_scope), name)
       THEN [st |-> st, ret |-> FALSE]
       ELSE LET r == DeclareIn(st, name, type_info, line, column)
            IN IF Len(st.scopes) > 1
               THEN [r EXCEPT !.st.memory_counter = st.memory_counter]
               ELSE r

\* declare_variable advancing memory_counter on a failed call too
declare_variable_counting_failures(st, name, type_info, line, column) ==
    LET current_scope == get_current_scope(st)
    IN IF DictHas(st.symbols, current_scope)
          /\ DictHas(DictGet(st.symbols, current_scope), name)
       THEN [st |-> [st EXCEPT !.memory_counter = @ + MEMORY_STEP], ret |-> FALSE]
       ELSE DeclareIn(st, name, type_info, line, column)

declare_variable(st, name, type_info, line, column) ==
    LET current_scope == get_current_scope(st)
    IN IF DictHas(st.symbols, current_scope)
          /\ DictHas(DictGet(st.symbols, current_scope), name)
       THEN [st |-> st, ret |-> FALSE]
       ELSE DeclareIn(st, name, type_info, line, column)

\* the indices of st.scopes whose scope declares name
ScopesDeclaring(st, name) ==
    {i \in DOMAIN st.scopes :
        DictHas(st.symbols, st.scopes[i]) /\ DictHas(DictGet(st.symbols, st.scopes[i]), name)}

MaxOf(S) == CHOOSE m \in S : \A n \in S : n <= m

MinOf(S) == CHOOSE m \in S : \A n \in S : m <= n

\* lookup_variable walking self.scopes instead of reversed(self.scopes)
lookup_variable_outermost_first(st, name) ==
    LET found == ScopesDeclaring(st, name)
    IN IF found = {}
       THEN None
       ELSE DictGet(DictGet(st.symbols, st.scopes[MinOf(found)]), name)

\* for scope_id in reversed(self.scopes): the first hit is the largest index
lookup_variable(st, name) ==
    LET found == ScopesDeclaring(st, name)
    IN IF found = {}
       THEN None
       ELSE DictGet(DictGet(st.symbols, st.scopes[MaxOf(found)]), name)

is_declared(st, name) == lookup_variable(st, name) # None

mark_initialized(st, name) ==
    LET symbol == lookup_variable(st, name)
    IN IF symbol # None
       THEN [st |-> [st EXCEPT !.symbols =
                        DictSet(st.symbols, symbol.scope,
                                DictSet(DictGet(st.symbols, symbol.scope), name,
                                        [symbol EXCEPT !.is_initialized = TRUE]))],
             ret |-> TRUE]
       ELSE [st |-> st, ret |-> FALSE]

RECURSIVE Flatten(_)
Flatten(ss) == IF ss = <<>> THEN <<>> ELSE Head(ss) \o Flatten(Tail(ss))

get_all_symbols(st) == Flatten([i \in DOMAIN st.symbols |-> DictValues(st.symbols[i].value)])

get_scope_depth(st) == Len(st.scopes)

(***************************************************************************)
(* TypeSystem                                                               *)
(***************************************************************************)
\* self.promotion_rules
promotion_rules == [t \in {"int"} |-> <<"float">>]

\* self.arithmetic_operators
arithmetic_operators ==
    [t \in BaseTypes |->
        CASE t = "int" -> <<"+", "-", "*", "/", "%", "^">>
          [] t = "float" -> <<"+", "-", "*", "/", "^">>
          [] OTHER -> <<>>]

\* dict.get(key, []) on one of the operator tables
OperatorsFor(table, base_type) ==
    IF base_type \in DOMAIN table THEN table[base_type] ELSE <<>>

ArithmeticOps == {"+", "-", "*", "/", "%", "^"}
RelationalOps == {">", "<", ">=", "<=", "==", "!="}
LogicalOps == {"&&", "||"}

can_convert(from_type, to_type) ==
    IF from_type = None \/ to_type = None
    THEN FALSE
    ELSE IF from_type.is_array # to_type.is_array
    THEN FALSE
    ELSE IF from_type.base_type \in DOMAIN promotion_rules
    THEN to_type.base_type \in Range(promotion_rules[from_type.base_type])
    ELSE FALSE

\* check_compatibility trying the promotion in one direction only
check_compatibility_one_way(type1, type2) ==
    IF type1 = None \/ type2 = None
    THEN FALSE
    ELSE IF /\ type1.base_type = type2.base_type
            /\ type1.is_array = type2.is_array
            /\ type1.array_size = type2.array_size
    THEN TRUE
    ELSE can_convert(type1, type2)

check_compatibility(type1, type2) ==
    IF type1 = None \/ type2 = None
    THEN FALSE
    ELSE IF /\ type1.base_type = type2.base_type
            /\ type1.is_array = type2.is_array
            /\ type1.array_size = type2.array_size
    THEN TRUE
    ELSE IF can_convert(type1, type2) \/ can_convert(type2, type1)
    THEN TRUE
    ELSE FALSE

\* _get_arithmetic_operation_result without the per-type operator table
_get_arithmetic_operation_result_no_table(operator, left_type, right_type) ==
    IF ~(is_numeric(left_type) /\ is_numeric(right_type))
    THEN None
    ELSE IF left_type.base_type = "float" \/ right_type.base_type = "float"
    THEN TypeInfo("float")
    ELSE IF left_type.base_type = "int" /\ right_type.base_type = "int"
    THEN TypeInfo("int")
    ELSE None

_get_arithmetic_operation_result(operator, left_type, right_type) ==
    IF ~(is_numeric(left_type) /\ is_numeric(right_type))
    THEN None
    ELSE IF \/ operator \notin Range(OperatorsFor(arithmetic_operators, left_type.base_type))
            \/ operator \notin Range(OperatorsFor(arithmetic_operators, right_type.base_type))
    THEN None
    ELSE IF left_type.base_type = "float" \/ right_type.base_type = "float"
    THEN TypeInfo("float")
    ELSE IF left_type.base_type = "int" /\ right_type.base_type = "int"
    THEN TypeInfo("int")
    ELSE None

get_operation_result_type(operator, left_type, right_type) ==
    IF left_type = None \/ right_type = None
    THEN None
    ELSE IF operator \in RelationalOps
    THEN IF check_compatibility(left_type, right_type) THEN TypeInfo("boolean") ELSE None
    ELSE IF operator \in LogicalOps
    THEN IF left_type.base_type = "boolean" /\ right_type.base_type = "boolean"
         THEN TypeInfo("boolean")
         ELSE None
    ELSE IF operator \in ArithmeticOps
    THEN _get_arithmetic_operation_result(operator, left_type, right_type)
    ELSE None

\* validate_assignment returns (es_valida, mensaje_error); the message is the
\* sequence of its pieces, <<>> for None
validate_assignment(target_type, value_type) ==
    IF target_type = None \/ value_type = None
    THEN [valid |-> FALSE, message |-> <<"Tipos no validos para asignacion">>]
    ELSE IF /\ target_type.base_type = value_type.base_type
            /\ target_type.is_array = value_type.is_array
    THEN [valid |-> TRUE, message |-> <<>>]
    ELSE IF can_convert(value_type, target_type)
    THEN [valid |-> TRUE, message |-> <<>>]
    ELSE [valid |-> FALSE,
          message |-> <<"No se puede asignar ">> \o TypeStr(value_type)
                         \o <<" a ">> \o TypeStr(target_type)]

(***************************************************************************)
(* ErrorReporter                                                            *)
(***************************************************************************)
ErrorReporter_init ==
    [errors |-> <<>>, warnings |-> <<>>,
     error_counts |-> << [key |-> "undeclared_variable", value |-> 0],
                         [key |-> "duplicate_declaration", value |-> 0],
                         [key |-> "type_incompatibility", value |-> 0],
                         [key |-> "invalid_conversion", value |-> 0],
                         [key |-> "operator_misuse", value |-> 0],
                         [key |-> "other", value |-> 0] >>]

\* Optional[int] None (original_line: int = None)
NoneInt == -1

\* ", ".join(parts) on strings given as piece sequences
RECURSIVE Join(_, _)
Join(parts, sep) ==
    IF parts = <<>> THEN <<>>
    ELSE IF Len(parts) = 1 THEN parts[1]
    ELSE parts[1] \o <<sep>> \o Join(Tail(parts), sep)

add_error(er, error_type, message, line, column, severity) ==
    LET semantic_error == [error_type |-> error_type, message |-> message,
                           line |-> line, column |-> column, severity |-> severity]
        er1 == IF severity = "error"
               THEN [er EXCEPT !.errors = Append(@, semantic_error)]
               ELSE [er EXCEPT !.warnings = Append(@, semantic_error)]
        key == IF DictHas(er.error_counts, error_type) THEN error_type ELSE "other"
    IN [er1 EXCEPT !.error_counts = DictSet(@, key, DictGet(@, key) + 1)]

add_undeclared_variable_error(er, variable_name, line, column) ==
    add_error(er, "undeclared_variable",
              <<"Variable '", variable_name, "' no declarada">>, line, column, "error")

add_duplicate_declaration_error(er, variable_name, line, column, original_line) ==
    LET message == IF original_line # NoneInt /\ original_line # 0
                   THEN <<"Variable '", variable_name, "' ya declarada en linea ",
                          ToString(original_line)>>
                   ELSE <<"Variable '", variable_name, "' ya declarada en el ambito actual">>
    IN add_error(er, "duplicate_declaration", message, line, column, "error")

add_type_incompatibility_error(er, expected_type, found_type, line, column, context) ==
    LET message == IF context # <<>>
                   THEN <<"Incompatibilidad de tipos en ">> \o context
                          \o <<": se esperaba ">> \o expected_type
                          \o <<", se encontro ">> \o found_type
                   ELSE <<"Incompatibilidad de tipos: se esperaba ">> \o expected_type
                          \o <<", se encontro ">> \o found_type
    IN add_error(er, "type_incompatibility", message, line, column, "error")

add_invalid_conversion_error(er, from_type, to_type, line, column) ==
    add_error(er, "invalid_conversion",
              <<"Conversion invalida de ">> \o from_type \o <<" a ">> \o to_type,
              line, column, "error")

add_operator_misuse_error(er, operator, operand_types, line, column) ==
    LET types_str == Join(operand_types, ", ")
    IN add_error(er, "operator_misuse",
                 <<"Operador '", operator, "' no valido para tipos: ">> \o types_str,
                 line, column, "error")

add_assignment_error(er, variable_name, variable_type, value_type, line, column) ==
    add_error(er, "type_incompatibility",
              <<"No se puede asignar valor de tipo ">> \o value_type
                 \o <<" a variable '", variable_name, "' de tipo ">> \o variable_type,
              line, column, "error")

add_warning(er, warning_type, message, line, column) ==
    add_error(er, warning_type, message, line, column, "warning")

has_errors(er) == Len(er.errors) > 0

get_errors(er) == er.errors

(***************************************************************************)
(* Nodo (src/sintactico.py): a tree node; hijos is the list of children.    *)
(* A node built without a value has valor NoneStr.                          *)
(***************************************************************************)
Nodo(tipo, valor, linea, columna, hijos) ==
    [tipo |-> tipo, valor |-> valor, linea |-> linea, columna |-> columna, hijos |-> hijos]

(***************************************************************************)
(* TypeSystem.infer_expression_type                                         *)
(***************************************************************************)
RECURSIVE infer_expression_type(_, _)

_infer_arithmetic_expression_type(node, st) ==
    IF Len(node.hijos) < 2
    THEN None
    ELSE LET left_type == infer_expression_type(node.hijos[1], st)
             right_type == infer_expression_type(node.hijos[2], st)
         IN IF left_type = None \/ right_type = None
            THEN None
            ELSE IF ~(is_numeric(left_type) /\ is_numeric(right_type))
            THEN None
            ELSE get_operation_result_type(node.tipo, left_type, right_type)

_infer_relational_expression_type(node, st) ==
    IF Len(node.hijos) < 2
    THEN None
    ELSE LET left_type == infer_expression_type(node.hijos[1], st)
             right_type == infer_expression_type(node.hijos[2], st)
         IN IF left_type = None \/ right_type = None
            THEN None
            ELSE IF check_compatibility(left_type, right_type)
            THEN TypeInfo("boolean")
            ELSE None

_infer_logical_expression_type(node, st) ==
    IF Len(node.hijos) < 2
    THEN None
    ELSE LET left_type == infer_expression_type(node.hijos[1], st)
             right_type == infer_expression_type(node.hijos[2], st)
         IN IF left_type = None \/ right_type = None
            THEN None
            ELSE IF left_type.base_type = "boolean" /\ right_type.base_type = "boolean"
            THEN TypeInfo("boolean")
            ELSE None

_infer_assignment_type(node, st) ==
    IF Len(node.hijos) < 2
    THEN None
    ELSE infer_expression_type(node.hijos[2], st)

infer_expression_type(node, st) ==
    IF node = None
    THEN None
    ELSE IF "semantic_type" \in DOMAIN node /\ node.semantic_type # None
    THEN node.semantic_type
    ELSE IF node.tipo = "NUM_INT" THEN TypeInfo("int")
    ELSE IF node.tipo = "NUM_FLOAT" THEN TypeInfo("float")
    ELSE IF node.tipo \in {"TRUE", "FALSE", "BOOLEANO"} THEN TypeInfo("boolean")
    ELSE IF node.tipo = "ID"
    THEN IF st # None
         THEN LET symbol == lookup_variable(st, node.valor)
              IN IF symbol # None THEN symbol.type_info ELSE None
         ELSE None
    ELSE IF node.tipo \in ArithmeticOps THEN _infer_arithmetic_expression_type(node, st)
    ELSE IF node.tipo \in RelationalOps THEN _infer_relational_expression_type(node, st)
    ELSE IF node.tipo \in LogicalOps THEN _infer_logical_expression_type(node, st)
    ELSE IF node.tipo = "=" THEN _infer_assignment_type(node, st)
    ELSE IF node.tipo = "COMPONENTE" /\ Len(node.hijos) = 1
    THEN infer_expression_type(node.hijos[1], st)
    ELSE None

(***************************************************************************)
(* SemanticErrorDetector.  self is [symbol_table, error_reporter]: the two  *)
(* objects the detector, the visitor and the analyzer share.  A method      *)
(* yields [self |-> the objects afterwards, ret |-> its return value].      *)
(***************************************************************************)
RECURSIVE check_undeclared_variables(_, _)
RECURSIVE check_undeclared_variables_hijos(_, _, _)

\* for hijo in node.hijos: if not self.check_undeclared_variables(hijo): ...
\* (ret: no error was found in hijos[i..])
check_undeclared_variables_hijos(self, hijos, i) ==
    IF i > Len(hijos)
    THEN [self |-> self, ret |-> TRUE]
    ELSE Let(check_undeclared_variables(self, hijos[i]), LAMBDA r :
         Let(check_undeclared_variables_hijos(r.self, hijos, i + 1), LAMBDA rest :
             [self |-> rest.self, ret |-> r.ret /\ rest.ret]))

check_undeclared_variables(self, node) ==
    IF node = None
    THEN [self |-> self, ret |-> TRUE]
    ELSE LET undeclared == node.tipo = "ID" /\ ~is_declared(self.symbol_table, node.valor)
         IN Let(IF undeclared
                THEN [self EXCEPT !.error_reporter =
                         add_undeclared_variable_error(@, node.valor, node.linea,
                                                       node.columna)]
                ELSE self, LAMBDA self1 :
            Let(check_undeclared_variables_hijos(self1, node.hijos, 1), LAMBDA rest :
                [self |-> rest.self, ret |-> ~undeclared /\ rest.ret]))

\* for hijo in node.hijos: the last TIPO child, and every ID under an IDENTIFICADOR child
IsTipoNode(n) == n.tipo = "TIPO"

IsIdNode(n) == n.tipo = "ID"

IsIdentificadorNode(n) == n.tipo = "IDENTIFICADOR"

DeclaredIdNodes(node) ==
    LET containers == SelectSeq(node.hijos, IsIdentificadorNode)
    IN Flatten([i \in DOMAIN containers |-> SelectSeq(containers[i].hijos, IsIdNode)])

\* for id_nodo in identificadores: ...
RECURSIVE check_duplicate_declarations_ids(_, _, _, _)
check_duplicate_declarations_ids(self, identificadores, i, tipo_info) ==
    IF i > Len(identificadores)
    THEN [self |-> self, ret |-> TRUE]
    ELSE LET id_nodo == identificadores[i]
             variable_name == id_nodo.valor
             duplicate == is_declared_in_current_scope(self.symbol_table, variable_name)
             existing_symbol == lookup_variable(self.symbol_table, variable_name)
             original_line == IF existing_symbol # None
                              THEN existing_symbol.line
                              ELSE NoneInt
         IN Let(IF duplicate
                THEN [self EXCEPT !.error_reporter =
                        add_duplicate_declaration_error(@, variable_name,
                            id_nodo.linea, id_nodo.columna, original_line)]
                ELSE [self EXCEPT !.symbol_table =
                        declare_variable(@, variable_name, tipo_info,
                                         id_nodo.linea, id_nodo.columna).st],
                LAMBDA self1 :
            Let(check_duplicate_declarations_ids(self1, identificadores, i + 1, tipo_info),
                LAMBDA rest :
                [self |-> rest.self, ret |-> ~duplicate /\ rest.ret]))

check_duplicate_declarations(self, node) ==
    IF node = None \/ node.tipo # "DECLARACION_VARIABLE"
    THEN [self |-> self, ret |-> TRUE]
    ELSE LET tipos == SelectSeq(node.hijos, IsTipoNode)
             identificadores == DeclaredIdNodes(node)
         IN IF tipos = <<>> \/ identificadores = <<>>
            THEN [self |-> self, ret |-> TRUE]
            ELSE check_duplicate_declarations_ids(
                     self, identificadores, 1,
                     crear_tipo_desde_string(tipos[Len(tipos)].valor))

_check_assignment_compatibility(self, node) ==
    IF Len(node.hijos) < 2
    THEN [self |-> self, ret |-> TRUE]
    ELSE LET left_node == node.hijos[1]
             right_node == node.hijos[2]
             symbol == lookup_variable(self.symbol_table, left_node.valor)
             right_type == infer_expression_type(right_node, self.symbol_table)
         IN IF left_node.tipo # "ID"
            THEN [self |-> [self EXCEPT !.error_reporter =
                              add_error(@, "invalid_assignment",
                                        <<"El lado izquierdo de la asignacion debe ser una variable">>,
                                        node.linea, node.columna, "error")],
                  ret |-> FALSE]
            ELSE IF symbol = None
            THEN [self |-> self, ret |-> FALSE]
            ELSE IF right_type = None
            THEN [self |-> [self EXCEPT !.error_reporter =
                              add_error(@, "type_inference_failed",
                                        <<"No se puede determinar el tipo de la expresion en la asignacion">>,
                                        right_node.linea, right_node.columna, "error")],
                  ret |-> FALSE]
            ELSE IF ~validate_assignment(symbol.type_info, right_type).valid
            THEN [self |-> [self EXCEPT !.error_reporter =
                              add_assignment_error(@, left_node.valor,
                                                   TypeStr(symbol.type_info),
                                                   TypeStr(right_type),
                                                   node.linea, node.columna)],
                  ret |-> FALSE]
            ELSE [self |-> self, ret |-> TRUE]

_check_arithmetic_compatibility(self, node) ==
    IF Len(node.hijos) < 2
    THEN [self |-> self, ret |-> TRUE]
    ELSE LET left_type == infer_expression_type(node.hijos[1], self.symbol_table)
             right_type == infer_expression_type(node.hijos[2], self.symbol_table)
         IN IF left_type = None \/ right_type = None
            THEN [self |-> self, ret |-> TRUE]
            ELSE IF ~(is_numeric(left_type) /\ is_numeric(right_type))
            THEN [self |-> [self EXCEPT !.error_reporter =
                              add_operator_misuse_error(@, node.tipo,
                                  <<TypeStr(left_type), TypeStr(right_type)>>,
                                  node.linea, node.columna)],
                  ret |-> FALSE]
            ELSE IF /\ node.tipo = "%"
                    /\ (left_type.base_type = "float" \/ right_type.base_type = "float")
            THEN [self |-> [self EXCEPT !.error_reporter =
                              add_error(@, "operator_misuse",
                                        <<"Operador modulo '%' no valido con tipos float">>,
                                        node.linea, node.columna, "error")],
                  ret |-> FALSE]
            ELSE [self |-> self, ret |-> TRUE]

_check_relational_compatibility(self, node) ==
    IF Len(node.hijos) < 2
    THEN [self |-> self, ret |-> TRUE]
    ELSE LET left_type == infer_expression_type(node.hijos[1], self.symbol_table)
             right_type == infer_expression_type(node.hijos[2], self.symbol_table)
         IN IF left_type = None \/ right_type = None
            THEN [self |-> self, ret |-> TRUE]
            ELSE IF ~check_compatibility(left_type, right_type)
            THEN [self |-> [self EXCEPT !.error_reporter =
                              add_type_incompatibility_error(@, TypeStr(left_type),
                                  TypeStr(right_type), node.linea, node.columna,
                                  <<"comparacion con operador '", node.tipo, "'">>)],
                  ret |-> FALSE]
            ELSE [self |-> self, ret |-> TRUE]

_check_logical_compatibility(self, node) ==
    IF Len(node.hijos) < 2
    THEN [self |-> self, ret |-> TRUE]
    ELSE LET left_type == infer_expression_type(node.hijos[1], self.symbol_table)
             right_type == infer_expression_type(node.hijos[2], self.symbol_table)
         IN IF left_type = None \/ right_type = None
            THEN [self |-> self, ret |-> TRUE]
            ELSE IF left_type.base_type # "boolean"
            THEN [self |-> [self EXCEPT !.error_reporter =
                              add_type_incompatibility_error(@, <<"boolean">>,
                                  TypeStr(left_type), node.hijos[1].linea,
                                  node.hijos[1].columna,
                                  <<"operando izquierdo del operador '", node.tipo, "'">>)],
                  ret |-> FALSE]
            ELSE IF right_type.base_type # "boolean"
            THEN [self |-> [self EXCEPT !.error_reporter =
                              add_type_incompatibility_error(@, <<"boolean">>,
                                  TypeStr(right_type), node.hijos[2].linea,
                                  node.hijos[2].columna,
                                  <<"operando derecho del operador '", node.tipo, "'">>)],
                  ret |-> FALSE]
            ELSE [self |-> self, ret |-> TRUE]

RECURSIVE check_type_compatibility(_, _)
RECURSIVE check_type_compatibility_hijos(_, _, _)

check_type_compatibility_hijos(self, hijos, i) ==
    IF i > Len(hijos)
    THEN [self |-> self, ret |-> TRUE]
    ELSE Let(check_type_compatibility(self, hijos[i]), LAMBDA r :
         Let(check_type_compatibility_hijos(r.self, hijos, i + 1), LAMBDA rest :
             [self |-> rest.self, ret |-> r.ret /\ rest.ret]))

check_type_compatibility(self, node) ==
    IF node = None
    THEN [self |-> self, ret |-> TRUE]
    ELSE Let(IF node.tipo = "="
             THEN _check_assignment_compatibility(self, node)
             ELSE IF node.tipo \in ArithmeticOps
             THEN _check_arithmetic_compatibility(self, node)
             ELSE IF node.tipo \in RelationalOps
             THEN _check_relational_compatibility(self, node)
             ELSE IF node.tipo \in LogicalOps
             THEN _check_logical_compatibility(self, node)
             ELSE [self |-> self, ret |-> TRUE], LAMBDA r :
         Let(check_type_compatibility_hijos(r.self, node.hijos, 1), LAMBDA rest :
             [self |-> rest.self, ret |-> r.ret /\ rest.ret]))

RECURSIVE check_invalid_conversions(_, _)
RECURSIVE check_invalid_conversions_hijos(_, _, _)

check_invalid_conversions_hijos(self, hijos, i) ==
    IF i > Len(hijos)
    THEN [self |-> self, ret |-> TRUE]
    ELSE Let(check_invalid_conversions(self, hijos[i]), LAMBDA r :
         Let(check_invalid_conversions_hijos(r.self, hijos, i + 1), LAMBDA rest :
             [self |-> rest.self, ret |-> r.ret /\ rest.ret]))

\* the assignment branch of check_invalid_conversions: TRUE iff it reports
InvalidConversionAt(self, node) ==
    /\ node.tipo = "="
    /\ Len(node.hijos) >= 2
    /\ node.hijos[1].tipo = "ID"
    /\ LET symbol == lookup_variable(self.symbol_table, node.hijos[1].valor)
           right_type == infer_expression_type(node.hijos[2], self.symbol_table)
       IN /\ symbol # None
          /\ right_type # None
          /\ ~can_convert(right_type, symbol.type_info)
          /\ ~check_compatibility(right_type, symbol.type_info)

check_invalid_conversions(self, node) ==
    IF node = None
    THEN [self |-> self, ret |-> TRUE]
    ELSE LET invalid == InvalidConversionAt(self, node)
         IN Let(IF invalid
                THEN [self EXCEPT !.error_reporter =
                        add_invalid_conversion_error(@,
                            TypeStr(infer_expression_type(node.hijos[2],
                                                          self.symbol_table)),
                            TypeStr(lookup_variable(self.symbol_table,
                                                    node.hijos[1].valor).type_info),
                            node.linea, node.columna)]
                ELSE self, LAMBDA self1 :
            Let(check_invalid_conversions_hijos(self1, node.hijos, 1), LAMBDA rest :
                [self |-> rest.self, ret |-> ~invalid /\ rest.ret]))

(***************************************************************************)
(* AnnotatedASTNode and SemanticVisitor.  The padre back-references are not *)
(* modelled: no operation of the analyzer reads them.                       *)
(***************************************************************************)
AnnotatedASTNode(original_node) ==
    [tipo |-> original_node.tipo, valor |-> original_node.valor,
     linea |-> original_node.linea, columna |-> original_node.columna,
     hijos |-> original_node.hijos,
     semantic_type |-> None, semantic_value |-> None, symbol_ref |-> None,
     is_lvalue |-> FALSE, is_constant |-> FALSE]

\* int(node.valor) / float(node.valor): the number the literal's text denotes,
\* kept as that text
NumberOf(valor) == [number |-> valor]

\* node.valor.lower() == 'true'
IsTrueLiteral(valor) == valor \in {"true", "True", "TRUE"}

\* a visit_* method yields [self |-> the shared objects afterwards,
\*                          node |-> the annotated node afterwards]
visit_generic(self, node) ==
    LET inferred_type == infer_expression_type(node, self.symbol_table)
    IN [self |-> self,
        node |-> IF inferred_type # None
                 THEN [node EXCEPT !.semantic_type = inferred_type]
                 ELSE node]

visit_declaracion_variable(self, node) ==
    [self |-> check_duplicate_declarations(self, node).self, node |-> node]

visit_id(self, node) ==
    LET symbol == lookup_variable(self.symbol_table, node.valor)
    IN IF symbol # None
       THEN [self |-> self,
             node |-> [node EXCEPT !.symbol_ref = symbol,
                                   !.semantic_type = symbol.type_info,
                                   !.is_lvalue = TRUE]]
       ELSE [self |-> [self EXCEPT !.error_reporter =
                         add_undeclared_variable_error(@, node.valor, node.linea,
                                                       node.columna)],
             node |-> node]

visit_num_int(self, node) ==
    [self |-> self,
     node |-> [node EXCEPT !.semantic_type = TypeInfo("int"),
                           !.semantic_value = NumberOf(node.valor),
                           !.is_constant = TRUE]]

visit_num_float(self, node) ==
    [self |-> self,
     node |-> [node EXCEPT !.semantic_type = TypeInfo("float"),
                           !.semantic_value = NumberOf(node.valor),
                           !.is_constant = TRUE]]

visit_booleano(self, node) ==
    [self |-> self,
     node |-> [node EXCEPT !.semantic_type = TypeInfo("boolean"),
                           !.semantic_value = [bool |-> IsTrueLiteral(node.valor)],
                           !.is_constant = TRUE]]

visit_asignacion(self, node) ==
    Let(check_type_compatibility(self, node).self, LAMBDA self1 :
        LET right_type == IF Len(node.hijos) >= 2
                          THEN infer_expression_type(node.hijos[2], self1.symbol_table)
                          ELSE None
        IN [self |-> self1,
            node |-> IF right_type # None
                     THEN [node EXCEPT !.semantic_type = right_type]
                     ELSE node])

visit_operador_aritmetico(self, node) ==
    Let(check_type_compatibility(self, node).self, LAMBDA self1 :
        LET left_type == IF Len(node.hijos) >= 2
                         THEN infer_expression_type(node.hijos[1], self1.symbol_table)
                         ELSE None
            right_type == IF Len(node.hijos) >= 2
                          THEN infer_expression_type(node.hijos[2], self1.symbol_table)
                          ELSE None
            result_type == IF left_type # None /\ right_type # None
                           THEN get_operation_result_type(node.tipo, left_type, right_type)
                           ELSE None
        IN [self |-> self1,
            node |-> IF result_type # None
                     THEN [node EXCEPT !.semantic_type = result_type]
                     ELSE node])

visit_operador_relacional(self, node) ==
    [self |-> check_type_compatibility(self, node).self,
     node |-> [node EXCEPT !.semantic_type = TypeInfo("boolean")]]

visit_operador_logico(self, node) ==
    [self |-> check_type_compatibility(self, node).self,
     node |-> [node EXCEPT !.semantic_type = TypeInfo("boolean")]]

visit_seleccion(self, node) ==
    [self |-> [self EXCEPT !.symbol_table =
                  enter_scope(@, "if_" \o ToString(node.linea)).st],
     node |-> node]

visit_iteracion(self, node) ==
    [self |-> [self EXCEPT !.symbol_table =
                  enter_scope(@, "while_" \o ToString(node.linea)).st],
     node |-> node]

visit_repeticion(self, node) ==
    [self |-> [self EXCEPT !.symbol_table =
                  enter_scope(@, "do_until_" \o ToString(node.linea)).st],
     node |-> node]

\* method_name = f'visit_{node.tipo.lower()}'; getattr if hasattr, else visit_generic
VisitMethod(self, node) ==
    CASE node.tipo = "DECLARACION_VARIABLE" -> visit_declaracion_variable(self, node)
      [] node.tipo = "ID" -> visit_id(self, node)
      [] node.tipo = "NUM_INT" -> visit_num_int(self, node)
      [] node.tipo = "NUM_FLOAT" -> visit_num_float(self, node)
      [] node.tipo = "BOOLEANO" -> visit_booleano(self, node)
      [] node.tipo = "ASIGNACION" -> visit_asignacion(self, node)
      [] node.tipo = "OPERADOR_ARITMETICO" -> visit_operador_aritmetico(self, node)
      [] node.tipo = "OPERADOR_RELACIONAL" -> visit_operador_relacional(self, node)
      [] node.tipo = "OPERADOR_LOGICO" -> visit_operador_logico(self, node)
      [] node.tipo = "SELECCION" -> visit_seleccion(self, node)
      [] node.tipo = "ITERACION" -> visit_iteracion(self, node)
      [] node.tipo = "REPETICION" -> visit_repeticion(self, node)
      [] OTHER -> visit_generic(self, node)

RECURSIVE visit(_, _)
RECURSIVE visit_hijos(_, _, _)

\* for hijo in node.hijos: annotated_child = self.visit(hijo); ...
\* (ret: the annotated children of hijos[i..])
visit_hijos(self, hijos, i) ==
    IF i > Len(hijos)
    THEN [self |-> self, ret |-> <<>>]
    ELSE Let(visit(self, hijos[i]), LAMBDA r :
         Let(visit_hijos(r.self, hijos, i + 1), LAMBDA rest :
             [self |-> rest.self,
              ret |-> (IF r.ret # None THEN <<r.ret>> ELSE <<>>) \o rest.ret]))

visit(self, node) ==
    IF node = None
    THEN [self |-> self, ret |-> None]
    ELSE Let(VisitMethod(self, AnnotatedASTNode(node)), LAMBDA m :
         Let(visit_hijos(m.self, node.hijos, 1), LAMBDA c :
             [self |-> c.self, ret |-> [m.node EXCEPT !.hijos = c.ret]]))

(***************************************************************************)
(* SemanticAnalyzer                                                         *)
(***************************************************************************)
\* node.tipo.lower() for the three constructs that open a scope
ScopeKinds == {"SELECCION", "ITERACION", "REPETICION"}

LowerTipo(tipo) ==
    CASE tipo = "SELECCION" -> "seleccion"
      [] tipo = "ITERACION" -> "iteracion"
      [] tipo = "REPETICION" -> "repeticion"

RECURSIVE _build_symbol_table(_, _)
RECURSIVE _build_symbol_table_hijos(_, _, _)

_build_symbol_table_hijos(self, hijos, i) ==
    IF i > Len(hijos)
    THEN self
    ELSE Let(_build_symbol_table(self, hijos[i]), LAMBDA built :
             _build_symbol_table_hijos(built, hijos, i + 1))

_build_symbol_table(self, node) ==
    IF node = None
    THEN self
    ELSE IF node.tipo = "DECLARACION_VARIABLE"
    THEN check_duplicate_declarations(self, node).self
    ELSE IF node.tipo \in ScopeKinds
    THEN Let([self EXCEPT !.symbol_table =
                 enter_scope(@, LowerTipo(node.tipo) \o "_" \o ToString(node.linea)).st],
             LAMBDA entered :
         Let(_build_symbol_table_hijos(entered, node.hijos, 1), LAMBDA built :
             [built EXCEPT !.symbol_table = exit_scope(@).st]))
    ELSE _build_symbol_table_hijos(self, node.hijos, 1)

(***************************************************************************)
(* TACGenerator (src/codigo_intermedio.py).  An instruction, a Python       *)
(* string of blank-separated words, is the sequence of its words; the       *)
(* generator is [instructions, temp_count, label_count].                    *)
(***************************************************************************)
TACGenerator_init == [instructions |-> <<>>, temp_count |-> 0, label_count |-> 0]

new_temp(self) ==
    [self |-> [self EXCEPT !.temp_count = @ + 1],
     ret |-> "t" \o ToString(self.temp_count + 1)]

\* a new_label whose counter stays where it was
new_label_same_count(self, base) ==
    [self |-> self, ret |-> base \o ToString(self.label_count + 1)]

new_label(self, base) ==
    [self |-> [self EXCEPT !.label_count = @ + 1],
     ret |-> base \o ToString(self.label_count + 1)]

emit(self, text) == [self EXCEPT !.instructions = Append(@, text)]

BinaryOperators ==
    {"+", "-", "*", "/", "%", "^", ">", "<", ">=", "<=", "==", "!=", "&&", "||"}

\* _gen_expr yields [self |-> the generator afterwards, ret |-> the place]
RECURSIVE _gen_expr(_, _)
_gen_expr(self, node) ==
    IF node = None THEN [self |-> self, ret |-> "0"]
    ELSE IF node.tipo \in {"SENT_EXPRESION", "COMPONENTE"}
    THEN IF node.hijos # <<>>
         THEN _gen_expr(self, node.hijos[1])
         ELSE [self |-> self, ret |-> "0"]
    ELSE IF node.tipo \in {"NUM_INT", "NUM_FLOAT", "ID"}
    THEN [self |-> self, ret |-> node.valor]
    ELSE IF node.tipo \in BinaryOperators
    THEN Let(_gen_expr(self, node.hijos[1]), LAMBDA izquierda :
         Let(_gen_expr(izquierda.self, node.hijos[2]), LAMBDA derecha :
         Let(new_temp(derecha.self), LAMBDA temp :
             [self |-> emit(temp.self,
                            <<temp.ret, "=", izquierda.ret, node.tipo, derecha.ret>>),
              ret |-> temp.ret])))
    ELSE IF node.tipo \in {"!", "NOT"}
    THEN Let(IF node.hijos # <<>>
             THEN _gen_expr(self, node.hijos[1])
             ELSE [self |-> self, ret |-> "0"], LAMBDA op :
         Let(new_temp(op.self), LAMBDA temp :
             [self |-> emit(temp.self, <<temp.ret, "=", "!", op.ret>>),
              ret |-> temp.ret]))
    ELSE IF node.hijos # <<>>
    THEN _gen_expr(self, node.hijos[Len(node.hijos)])
    ELSE [self |-> self, ret |-> "0"]

IsElseNode(h) == h.tipo = "ELSE"

\* for h in node.hijos[2:]: if h.tipo == "ELSE": else_node = h; break
ElseNodeOf(node) ==
    LET rest == SelectSeq(SubSeq(node.hijos, 3, Len(node.hijos)), IsElseNode)
    IN IF rest = <<>> THEN None ELSE rest[1]

\* _gen_stmt yields the generator afterwards
RECURSIVE _gen_stmt(_, _)
RECURSIVE _gen_stmt_hijos(_, _, _)
RECURSIVE _gen_stmt_salida(_, _, _)

\* for h in node.hijos: self._gen_stmt(h)
_gen_stmt_hijos(self, hijos, i) ==
    IF i > Len(hijos) THEN self
    ELSE Let(_gen_stmt(self, hijos[i]), LAMBDA s : _gen_stmt_hijos(s, hijos, i + 1))

\* for parte in salida.hijos: PRINT_STR of a CADENA, PRINT of anything else
_gen_stmt_salida(self, partes, i) ==
    IF i > Len(partes) THEN self
    ELSE IF partes[i].tipo = "CADENA"
    THEN _gen_stmt_salida(emit(self, <<"PRINT_STR">> \o partes[i].valor), partes, i + 1)
    ELSE Let(_gen_expr(self, partes[i]), LAMBDA place :
             _gen_stmt_salida(emit(place.self, <<"PRINT", place.ret>>), partes, i + 1))

_gen_stmt_asignacion(self, node) ==
    IF Len(node.hijos) >= 2
    THEN LET id_node == node.hijos[1]
             sent_expr == node.hijos[2]
             expr_node == IF sent_expr.hijos # <<>> THEN sent_expr.hijos[1] ELSE None
         IN Let(_gen_expr(self, expr_node), LAMBDA place :
                emit(place.self, <<id_node.valor, "=", place.ret>>))
    ELSE self

_gen_stmt_seleccion(self, node) ==
    LET expr_node == IF node.hijos # <<>> THEN node.hijos[1] ELSE None
        then_node == IF Len(node.hijos) > 1 THEN node.hijos[2] ELSE None
        else_node == IF Len(node.hijos) > 2 THEN ElseNodeOf(node) ELSE None
    IN Let(_gen_expr(self, expr_node), LAMBDA cond_place :
       Let(new_label(cond_place.self, "L_else"), LAMBDA label_else :
       Let(new_label(label_else.self, "L_endif"), LAMBDA label_end :
       Let(emit(label_end.self, <<"IF_FALSE", cond_place.ret, "GOTO", label_else.ret>>),
           LAMBDA s1 :
       Let(IF then_node # None THEN _gen_stmt(s1, then_node) ELSE s1, LAMBDA s2 :
       Let(emit(emit(s2, <<"GOTO", label_end.ret>>), <<"LABEL", label_else.ret>>),
           LAMBDA s3 :
       Let(IF else_node # None /\ else_node.hijos # <<>>
           THEN _gen_stmt(s3, else_node.hijos[1])
           ELSE s3, LAMBDA s4 :
           emit(s4, <<"LABEL", label_end.ret>>))))))))

\* a while whose condition is computed once, before LABEL start
_gen_stmt_iteracion_condition_once(self, node) ==
    LET expr_node == IF node.hijos # <<>> THEN node.hijos[1] ELSE None
        body_node == IF Len(node.hijos) > 1 THEN node.hijos[2] ELSE None
    IN Let(new_label(self, "L_while"), LAMBDA label_start :
       Let(new_label(label_start.self, "L_endwhile"), LAMBDA label_end :
       Let(_gen_expr(label_end.self, expr_node), LAMBDA cond_place :
       Let(emit(emit(cond_place.self, <<"LABEL", label_start.ret>>),
                <<"IF_FALSE", cond_place.ret, "GOTO", label_end.ret>>), LAMBDA s1 :
       Let(IF body_node # None THEN _gen_stmt(s1, body_node) ELSE s1, LAMBDA s2 :
           emit(emit(s2, <<"GOTO", label_start.ret>>), <<"LABEL", label_end.ret>>))))))

_gen_stmt_iteracion(self, node) ==
    LET expr_node == IF node.hijos # <<>> THEN node.hijos[1] ELSE None
        body_node == IF Len(node.hijos) > 1 THEN node.hijos[2] ELSE None
    IN Let(new_label(self, "L_while"), LAMBDA label_start :
       Let(new_label(label_start.self, "L_endwhile"), LAMBDA label_end :
       Let(_gen_expr(emit(label_end.self, <<"LABEL", label_start.ret>>), expr_node),
           LAMBDA cond_place :
       Let(emit(cond_place.self,
                <<"IF_FALSE", cond_place.ret, "GOTO", label_end.ret>>), LAMBDA s1 :
       Let(IF body_node # None THEN _gen_stmt(s1, body_node) ELSE s1, LAMBDA s2 :
           emit(emit(s2, <<"GOTO", label_start.ret>>), <<"LABEL", label_end.ret>>))))))

\* _gen_stmt with a branch for REPETICION that computes the condition after the body
_gen_stmt_repeticion_condition(self, node) ==
    IF node = None THEN self
    ELSE IF node.tipo = "REPETICION"
    THEN _gen_expr(_gen_stmt_hijos(self, node.hijos, 1), node.hijos[Len(node.hijos)]).self
    ELSE IF node.tipo \in {"PROGRAMA", "LISTA_DECLARACION", "LISTA_SENTENCIAS",
                           "DECLARACION_VARIABLE", "IDENTIFICADOR"}
    THEN _gen_stmt_hijos(self, node.hijos, 1)
    ELSE IF node.tipo = "="
    THEN _gen_stmt_asignacion(self, node)
    ELSE IF node.tipo = "SELECCION"
    THEN _gen_stmt_seleccion(self, node)
    ELSE _gen_stmt_hijos(self, node.hijos, 1)

_gen_stmt(self, node) ==
    IF node = None THEN self
    ELSE IF node.tipo \in {"PROGRAMA", "LISTA_DECLARACION", "LISTA_SENTENCIAS",
                           "DECLARACION_VARIABLE", "IDENTIFICADOR"}
    THEN _gen_stmt_hijos(self, node.hijos, 1)
    ELSE IF node.tipo = "="
    THEN _gen_stmt_asignacion(self, node)
    ELSE IF node.tipo = "SENT_OUT"
    THEN IF node.hijos # <<>>
         THEN _gen_stmt_salida(self, node.hijos[1].hijos, 1)
         ELSE self
    ELSE IF node.tipo = "SENT_IN"
    THEN IF node.hijos # <<>>
         THEN emit(self, <<"READ", node.hijos[1].valor>>)
         ELSE self
    ELSE IF node.tipo = "SELECCION"
    THEN _gen_stmt_seleccion(self, node)
    ELSE IF node.tipo = "ITERACION"
    THEN _gen_stmt_iteracion(self, node)
    ELSE _gen_stmt_hijos(self, node.hijos, 1)

\* generate_program(root)
generate_program(self, root) == IF root = None THEN self ELSE _gen_stmt(self, root)

(***************************************************************************)
(* Python numbers of the interpreter.  An int or a float is the exact       *)
(* fraction num / den in lowest terms (den > 0) with a flag telling floats  *)
(* from ints: 7 is [num 7, den 1, int], 3.5 is [num 7, den 2, float].  The  *)
(* literals and inputs of the model are ints and floats with a finite       *)
(* binary expansion, for which float arithmetic is exact.                   *)
(***************************************************************************)
MaxLiteral == 9                \* int literals are -MaxLiteral .. MaxLiteral
FloatDigits == {0, 5}          \* the decimal of a float literal: n.0 or n.5

Abs(n) == IF n < 0 THEN -n ELSE n

RECURSIVE GCD(_, _)
GCD(a, b) == IF b = 0 THEN a ELSE GCD(b, a % b)

Number(num, den, float) ==
    LET g == GCD(Abs(num), den)
    IN [num |-> num \div g, den |-> den \div g, float |-> float]

PyInt(n) == Number(n, 1, FALSE)

IsTruthy(v) == v.num # 0

NumLess(a, b) == a.num * b.den < b.num * a.den

NumEqual(a, b) == a.num * b.den = b.num * a.den

\* floor(a / b) for b # 0
FloorDiv(a, b) ==
    LET n == a.num * b.den
        d == a.den * b.num
    IN IF d > 0 THEN n \div d ELSE (-n) \div (-d)

RECURSIVE IntPow(_, _)
IntPow(b, e) == IF e = 0 THEN 1 ELSE b * IntPow(b, e - 1)

ZeroDivisionError == [raise |-> "ZeroDivisionError"]

\* v1 ** v2 for an exponent with an integer value
PyPow(v1, v2) ==
    LET float == v1.float \/ v2.float \/ v2.num < 0
    IN CASE v2.den = 1 /\ v2.num >= 0 ->
              Number(IntPow(v1.num, v2.num), IntPow(v1.den, v2.num), float)
         [] v2.den = 1 /\ v2.num < 0 /\ v1.num = 0 -> ZeroDivisionError
         [] v2.den = 1 /\ v2.num < 0 /\ v1.num > 0 ->
              Number(IntPow(v1.den, -v2.num), IntPow(v1.num, -v2.num), float)
         [] v2.den = 1 /\ v2.num < 0 /\ v1.num < 0 ->
              Number(IntPow(-v1.den, -v2.num), IntPow(-v1.num, -v2.num), float)

\* the decimals of str(float): thousandths without trailing zeros
Decimals(th) ==
    IF th % 100 = 0 THEN ToString(th \div 100)
    ELSE IF th % 10 = 0
    THEN (IF th < 100 THEN "0" ELSE "") \o ToString(th \div 10)
    ELSE (IF th < 10 THEN "00" ELSE IF th < 100 THEN "0" ELSE "") \o ToString(th)

\* str(value), for an int and for a float of at most three decimals
PyStr(v) ==
    CASE ~v.float -> ToString(v.num)
      [] v.float /\ 1000 % v.den = 0 ->
            (IF v.num < 0 THEN "-" ELSE "")
              \o ToString(Abs(v.num) \div v.den) \o "."
              \o Decimals(((Abs(v.num) % v.den) * 1000) \div v.den)

(***************************************************************************)
(* TACInterpreter (src/codigo_intermedio.py).  The interpreter is           *)
(*   [instructions, labels, pc, mem, write_func, output_lines, written,     *)
(*    ret, raised]:                                                         *)
(* labels and mem are dicts whose keys are word sequences (a name is one    *)
(* word), pc counts from 0 as in the code, write_func tells whether a write *)
(* callback was injected and written is what that callback received; ret is *)
(* what run() returned and raised the exception that left run(), None       *)
(* before.  A text (an output line, a CADENA value) is a sequence of pieces.*)
(***************************************************************************)
Quote == "\""

\* _parse_number(s): int(s), or float(s) when s holds a '.', and 0 on ValueError
_parse_number(s) ==
    IF \E n \in -MaxLiteral..MaxLiteral : ToString(n) = s
    THEN PyInt(CHOOSE n \in -MaxLiteral..MaxLiteral : ToString(n) = s)
    ELSE IF \E n \in 0..MaxLiteral, d \in FloatDigits :
                ToString(n) \o "." \o ToString(d) = s
    THEN LET p == CHOOSE p \in (0..MaxLiteral) \X FloatDigits :
                      ToString(p[1]) \o "." \o ToString(p[2]) = s
         IN Number(10 * p[1] + p[2], 10, TRUE)
    ELSE PyInt(0)

\* _eval_operand(tok): the value in mem, else the number the text denotes
\* (text of several words denotes no number)
_eval_operand(self, tok) ==
    IF DictHas(self.mem, tok) THEN DictGet(self.mem, tok)
    ELSE IF Len(tok) = 1 THEN _parse_number(tok[1])
    ELSE PyInt(0)

\* Python's own division: a zero divisor raises
_apply_op_python_division(v1, op, v2) ==
    IF op \in {"/", "%"} /\ v2.num = 0 THEN ZeroDivisionError
    ELSE IF op = "^" THEN PyPow(v1, v2)
    ELSE IF op = "/" THEN Number(v1.num * v2.den * (IF v2.num > 0 THEN 1 ELSE -1),
                                 v1.den * v2.num * (IF v2.num > 0 THEN 1 ELSE -1), TRUE)
    ELSE PyInt(0)

_apply_op(v1, op, v2) ==
    LET float == v1.float \/ v2.float
        truth(b) == IF b THEN PyInt(1) ELSE PyInt(0)
    IN CASE op = "+" -> Number(v1.num * v2.den + v2.num * v1.den, v1.den * v2.den, float)
         [] op = "-" -> Number(v1.num * v2.den - v2.num * v1.den, v1.den * v2.den, float)
         [] op = "*" -> Number(v1.num * v2.num, v1.den * v2.den, float)
         [] op = "/" -> IF v2.num # 0
                        THEN IF v2.num > 0
                             THEN Number(v1.num * v2.den, v1.den * v2.num, TRUE)
                             ELSE Number(-(v1.num * v2.den), -(v1.den * v2.num), TRUE)
                        ELSE PyInt(0)
         [] op = "%" -> IF v2.num # 0
                        THEN LET q == FloorDiv(v1, v2)
                             IN Number(v1.num * v2.den - q * v2.num * v1.den,
                                       v1.den * v2.den, float)
                        ELSE PyInt(0)
         [] op = "^" -> PyPow(v1, v2)
         [] op = ">" -> truth(NumLess(v2, v1))
         [] op = "<" -> truth(NumLess(v1, v2))
         [] op = ">=" -> truth(~NumLess(v1, v2))
         [] op = "<=" -> truth(~NumLess(v2, v1))
         [] op = "==" -> truth(NumEqual(v1, v2))
         [] op = "!=" -> truth(~NumEqual(v1, v2))
         [] op = "&&" -> truth(IsTruthy(v1) /\ IsTruthy(v2))
         [] op = "||" -> truth(IsTruthy(v1) \/ IsTruthy(v2))
         [] OTHER -> PyInt(0)

\* the words that hold a '=' character
EqualsWords == {"=", "==", ">=", "<=", "!="}

HasEquals(inst) == \E k \in DOMAIN inst : inst[k] \in EqualsWords

FirstEquals(inst) ==
    CHOOSE k \in DOMAIN inst :
        inst[k] \in EqualsWords /\ \A j \in 1..(k - 1) : inst[j] \notin EqualsWords

\* left, right = inst.split("=", 1), stripped and split into words
AssignLeft(inst) ==
    LET k == FirstEquals(inst)
    IN SubSeq(inst, 1, k - 1)
         \o (CASE inst[k] = ">=" -> <<">">>
               [] inst[k] = "<=" -> <<"<">>
               [] inst[k] = "!=" -> <<"!">>
               [] OTHER -> <<>>)

AssignRight(inst) ==
    LET k == FirstEquals(inst)
    IN (IF inst[k] = "==" THEN <<"=">> ELSE <<>>) \o SubSeq(inst, k + 1, Len(inst))

\* _exec_assign(inst): the interpreter afterwards, raised set if _apply_op raised
_exec_assign(self, inst) ==
    LET left == AssignLeft(inst)
        tokens == AssignRight(inst)
        value == IF Len(tokens) = 1 THEN _eval_operand(self, <<tokens[1]>>)
                 ELSE IF Len(tokens) = 2 /\ tokens[1] = "!"
                 THEN (IF IsTruthy(_eval_operand(self, <<tokens[2]>>))
                       THEN PyInt(0) ELSE PyInt(1))
                 ELSE IF Len(tokens) = 3
                 THEN _apply_op(_eval_operand(self, <<tokens[1]>>), tokens[2],
                                _eval_operand(self, <<tokens[3]>>))
                 ELSE PyInt(0)
    IN IF value = ZeroDivisionError
       THEN [self EXCEPT !.raised = value]
       ELSE [self EXCEPT !.mem = DictSet(@, left, value)]

\* inst.startswith(word + " ") on the stripped instruction
StartsWith(inst, word) == Len(inst) >= 2 /\ inst[1] = word

\* a label table that sends every label to the start of the program
IsLabel(inst) == Len(inst) >= 2 /\ inst[1] = "LABEL"

_build_label_table_at_start(instructions, idx, labels) ==
    LET marks == SelectSeq(instructions, IsLabel)
    IN [i \in DOMAIN marks |-> [key |-> Tail(marks[i]), value |-> 0]]

\* _build_label_table(): name |-> index of its last LABEL instruction
RECURSIVE _build_label_table(_, _, _)
_build_label_table(instructions, idx, labels) ==
    IF idx >= Len(instructions) THEN labels
    ELSE _build_label_table(instructions, idx + 1,
             IF StartsWith(instructions[idx + 1], "LABEL")
             THEN DictSet(labels, Tail(instructions[idx + 1]), idx)
             ELSE labels)

TACInterpreter_init(instructions, write_func) ==
    [instructions |-> instructions,
     labels |-> _build_label_table(instructions, 0, <<>>),
     pc |-> 0, mem |-> <<>>, write_func |-> write_func,
     output_lines |-> <<>>, written |-> <<>>, ret |-> None, raised |-> None]

\* a write that never calls the injected callback
write_without_callback(self, s) == [self EXCEPT !.output_lines = Append(@, s)]

\* write(text)
write(self, s) ==
    [self EXCEPT !.output_lines = Append(@, s),
                 !.written = IF self.write_func THEN Append(@, s) ELSE @]

\* a jump to a missing label that goes on with the next instruction
LabelTarget_falls_through(self, label) ==
    IF DictHas(self.labels, label) THEN DictGet(self.labels, label)
    ELSE self.pc + 1

\* self.labels.get(label, len(self.instructions))
LabelTarget(self, label) ==
    IF DictHas(self.labels, label) THEN DictGet(self.labels, label)
    ELSE Len(self.instructions)

\* the position of the first "GOTO" in an IF_FALSE instruction, 0 if none
GotoAt(inst) ==
    IF \E k \in 2..Len(inst) : inst[k] = "GOTO"
    THEN CHOOSE k \in 2..Len(inst) :
             inst[k] = "GOTO" /\ \A j \in 2..(k - 1) : inst[j] # "GOTO"
    ELSE 0

\* text[1:-1] when the text starts and ends with a quote
Unquoted(text) ==
    IF text # <<>> /\ text[1] = Quote /\ text[Len(text)] = Quote
    THEN SubSeq(text, 2, Len(text) - 1)
    ELSE text

\* one turn of the loop of run(); input is what read_func returns on a READ
run_step(self, input) ==
    LET inst == self.instructions[self.pc + 1]
        next == [self EXCEPT !.pc = @ + 1]
    IN IF inst = <<>> THEN next
       ELSE IF StartsWith(inst, "LABEL") THEN next
       ELSE IF StartsWith(inst, "GOTO")
       THEN [self EXCEPT !.pc = LabelTarget(self, Tail(inst))]
       ELSE IF StartsWith(inst, "IF_FALSE")
       THEN LET g == GotoAt(inst)
                cond_name == IF g = 0 THEN Tail(inst) ELSE SubSeq(inst, 2, g - 1)
                label == IF g = 0 THEN <<>> ELSE SubSeq(inst, g + 1, Len(inst))
            IN IF ~IsTruthy(_eval_operand(self, cond_name))
               THEN [self EXCEPT !.pc = LabelTarget(self, label)]
               ELSE next
       ELSE IF StartsWith(inst, "READ")
       THEN [next EXCEPT !.mem = DictSet(@, Tail(inst), _parse_number(input))]
       ELSE IF StartsWith(inst, "PRINT_STR")
       THEN write(next, Unquoted(Tail(inst)))
       ELSE IF StartsWith(inst, "PRINT")
       THEN write(next, <<PyStr(_eval_operand(self, Tail(inst)))>>)
       ELSE IF HasEquals(inst)
       THEN Let(_exec_assign(self, inst), LAMBDA s :
                IF s.raised # None THEN s ELSE [s EXCEPT !.pc = @ + 1])
       ELSE next

\* return "\n".join(self.output_lines)
run_return(self) == [self EXCEPT !.ret = Join(self.output_lines, "\n")]

(***************************************************************************)
(* The symbol-table API harness: any sequence of calls on one SymbolTable.  *)
(***************************************************************************)
\* the declarations the harness makes: `int <name>` on line 1, `float <name>` on line 2
DeclInputs == {[type_info |-> TIPO_INT, line |-> 1, column |-> 5],
               [type_info |-> TIPO_FLOAT, line |-> 2, column |-> 7]}

\* last_call holds the parameters by name and the returned value; a returned bool
\* or str is wrapped (RetBool, RetStr) so that two calls are always comparable
NoParams == [tag |-> "NoParams"]

RetBool(b) == [bool |-> b]

RetStr(s) == [str |-> s]

NoCall == [op |-> "none", params |-> NoParams, ret |-> None]

AnalyzerIdle ==
    /\ ast = None
    /\ annotated_ast = None
    /\ phase = "idle"
    /\ run = 1
    /\ first_run = None
    /\ generator = None
    /\ vm = None

TableInit ==
    /\ symbol_table = SymbolTable_init
    /\ error_reporter = ErrorReporter_init
    /\ last_call = NoCall
    /\ AnalyzerIdle

TableFrame == UNCHANGED <<error_reporter, ast, annotated_ast, phase, run, first_run, generator, vm>>

EnterScope ==
    /\ symbol_table.current_scope_id < MaxScopeId
    /\ \E scope_name \in ScopeNames \cup {NoneStr} :
          LET r == enter_scope(symbol_table, scope_name)
          IN /\ symbol_table' = r.st
             /\ last_call' = [op |-> "enter_scope", params |-> [scope_name |-> scope_name],
                              ret |-> RetStr(r.ret)]
    /\ TableFrame

ExitScope ==
    /\ LET r == exit_scope(symbol_table)
       IN /\ symbol_table' = r.st
          /\ last_call' = [op |-> "exit_scope", params |-> NoParams, ret |-> RetStr(r.ret)]
    /\ TableFrame

DeclareVariable ==
    /\ symbol_table.memory_counter < MEMORY_BASE + MEMORY_STEP * MaxDecls
    /\ \E name \in Names, d \in DeclInputs :
          LET r == declare_variable(symbol_table, name, d.type_info, d.line, d.column)
          IN /\ symbol_table' = r.st
             /\ last_call' = [op |-> "declare_variable",
                              params |-> [name |-> name, type_info |-> d.type_info,
                                          line |-> d.line, column |-> d.column],
                              ret |-> RetBool(r.ret)]
    /\ TableFrame

LookupVariable ==
    /\ \E name \in Names :
          last_call' = [op |-> "lookup_variable", params |-> [name |-> name],
                        ret |-> lookup_variable(symbol_table, name)]
    /\ UNCHANGED symbol_table
    /\ TableFrame

MarkInitialized ==
    /\ \E name \in Names :
          LET r == mark_initialized(symbol_table, name)
          IN /\ symbol_table' = r.st
             /\ last_call' = [op |-> "mark_initialized", params |-> [name |-> name],
                              ret |-> RetBool(r.ret)]
    /\ TableFrame

TableNext ==
    \/ EnterScope
    \/ ExitScope
    \/ DeclareVariable
    \/ LookupVariable
    \/ MarkInitialized

SpecTable == TableInit /\ [][TableNext]_vars

(***************************************************************************)
(* ErrorReporter: reading the store (src/semantico.py, class ErrorReporter) *)
(***************************************************************************)
has_warnings(er) == Len(er.warnings) > 0

\* the store's own list handed out instead of a copy
copy_same_object(list) == [object |-> "self", items |-> list]

\* list.copy(): a new list object with the same items; a list handed out is
\* [object, items], object "self" when it is the store's own list
copy(list) == [object |-> "new", items |-> list]

get_warnings(er) == er.warnings

get_all_issues(er) == er.errors \o er.warnings

get_error_count(er) == Len(er.errors)

get_warning_count(er) == Len(er.warnings)

\* get_error_count_by_type(error_type): self.error_counts.get(error_type, 0)
get_error_count_by_type(er, error_type) ==
    IF DictHas(er.error_counts, error_type) THEN DictGet(er.error_counts, error_type) ELSE 0

clear(er) ==
    [errors |-> <<>>, warnings |-> <<>>,
     error_counts |-> [i \in DOMAIN er.error_counts |->
                          [key |-> er.error_counts[i].key, value |-> 0]]]

\* key=lambda x: (x.line, x.column), compared as Python compares tuples
KeyLess(a, b) == a.line < b.line \/ (a.line = b.line /\ a.column < b.column)

\* sorted(list, key=...): Python's sort is stable, an item goes behind the
\* items before it in the list whose key is not greater
RECURSIVE sorted(_)
sorted(list) ==
    IF list = <<>> THEN <<>>
    ELSE Let(sorted(SubSeq(list, 1, Len(list) - 1)), LAMBDA front :
         LET x == list[Len(list)]
             smaller == {k \in DOMAIN front : ~KeyLess(x, front[k])}
             at == IF smaller = {} THEN 0
                   ELSE CHOOSE k \in smaller : \A j \in smaller : j <= k
         IN SubSeq(front, 1, at) \o <<x>> \o SubSeq(front, at + 1, Len(front)))

\* str.upper() on the severities
upper(severity) ==
    CASE severity = "error" -> "ERROR"
      [] severity = "warning" -> "WARNING"
      [] OTHER -> severity

\* descripcion[:45] + "..." when the message is longer than 48 characters
Descripcion(message) ==
    IF Len(message) > 48 THEN SubSeq(message, 1, 45) \o "..." ELSE message

NoErrorsText == [text |-> "No se encontraron errores semanticos"]

\* format_errors(): the cells of the table rows in the order written, and the
\* two counts of the summary
format_errors(er) ==
    IF ~has_errors(er) /\ ~has_warnings(er)
    THEN NoErrorsText
    ELSE LET all_issues == sorted(get_all_issues(er))
         IN [rows |-> [i \in DOMAIN all_issues |->
                          [severity |-> upper(all_issues[i].severity),
                           error_type |-> all_issues[i].error_type,
                           descripcion |-> Descripcion(all_issues[i].message),
                           line |-> all_issues[i].line,
                           column |-> all_issues[i].column]],
             errores |-> get_error_count(er),
             advertencias |-> get_warning_count(er)]

(***************************************************************************)
(* The ErrorReporter API harness: a client adds errors and warnings, reads  *)
(* the store, changes the list get_errors() gave it, and clears the store.  *)
(* The message of a diagnostic starts with its ordinal among the            *)
(* diagnostics added since the store was last empty.                        *)
(***************************************************************************)
MaxIssues == 3                 \* diagnostics in the store

IssueLines == {1, 2}

IssueColumns == {1, 5}

IssueTypes == {"undeclared_variable", "unused_variable"}

LongText == ": la variable se usa antes de su declaracion en este ambito"

IssueMessages(er) ==
    LET ordinal == ToString(Len(er.errors) + Len(er.warnings) + 1)
    IN {ordinal, ordinal \o LongText}

ReporterInit ==
    /\ symbol_table = SymbolTable_init
    /\ error_reporter = ErrorReporter_init
    /\ last_call = NoCall
    /\ AnalyzerIdle

ReporterFrame ==
    UNCHANGED <<symbol_table, ast, annotated_ast, phase, run, first_run, generator, vm>>

AddError ==
    /\ Len(error_reporter.errors) + Len(error_reporter.warnings) < MaxIssues
    /\ \E error_type \in IssueTypes, message \in IssueMessages(error_reporter),
          line \in IssueLines, column \in IssueColumns :
          /\ error_reporter' = add_error(error_reporter, error_type, message, line,
                                         column, "error")
          /\ last_call' = [op |-> "add_error",
                           params |-> [error_type |-> error_type, message |-> message,
                                       line |-> line, column |-> column],
                           ret |-> None]
    /\ ReporterFrame

AddWarning ==
    /\ Len(error_reporter.errors) + Len(error_reporter.warnings) < MaxIssues
    /\ \E warning_type \in IssueTypes, message \in IssueMessages(error_reporter),
          line \in IssueLines, column \in IssueColumns :
          /\ error_reporter' = add_warning(error_reporter, warning_type, message, line,
                                           column)
          /\ last_call' = [op |-> "add_warning",
                           params |-> [error_type |-> warning_type, message |-> message,
                                       line |-> line, column |-> column],
                           ret |-> None]
    /\ ReporterFrame

HasErrors ==
    /\ last_call' = [op |-> "has_errors", params |-> NoParams,
                     ret |-> RetBool(has_errors(error_reporter))]
    /\ UNCHANGED error_reporter
    /\ ReporterFrame

GetErrors ==
    /\ last_call' = [op |-> "get_errors", params |-> NoParams,
                     ret |-> copy(get_errors(error_reporter))]
    /\ UNCHANGED error_reporter
    /\ ReporterFrame

\* the client empties the list get_errors() returned (returned.clear()); the
\* store's list changes with it when it is the same object
ClearReturned ==
    /\ last_call.op = "get_errors"
    /\ last_call' = [op |-> "returned.clear", params |-> NoParams,
                     ret |-> [last_call.ret EXCEPT !.items = <<>>]]
    /\ error_reporter' = IF last_call.ret.object = "self"
                         THEN [error_reporter EXCEPT !.errors = <<>>]
                         ELSE error_reporter
    /\ ReporterFrame

FormatErrors ==
    /\ last_call' = [op |-> "format_errors", params |-> NoParams,
                     ret |-> format_errors(error_reporter)]
    /\ UNCHANGED error_reporter
    /\ ReporterFrame

Clear ==
    /\ error_reporter' = clear(error_reporter)
    /\ last_call' = [op |-> "clear", params |-> NoParams, ret |-> None]
    /\ ReporterFrame

ReporterNext ==
    \/ AddError
    \/ AddWarning
    \/ HasErrors
    \/ GetErrors
    \/ ClearReturned
    \/ FormatErrors
    \/ Clear

SpecReporter == ReporterInit /\ [][ReporterNext]_vars

(***************************************************************************)
(* The type-system harness: one call of a TypeSystem method on any operands *)
(* (test_semantic_analyzer.py, TestTypeSystem).                             *)
(***************************************************************************)
TypeInputs == {TypeInfo(b) : b \in BaseTypes} \cup {ArrayTypeInfo(b) : b \in BaseTypes}
                 \cup {None}

\* every operator of the language, and one that is none of them
OperatorInputs == ArithmeticOps \cup RelationalOps \cup LogicalOps \cup {"!"}

TypesInit ==
    /\ symbol_table = SymbolTable_init
    /\ error_reporter = ErrorReporter_init
    /\ last_call = NoCall
    /\ AnalyzerIdle

TypesFrame ==
    UNCHANGED <<symbol_table, error_reporter, ast, annotated_ast, phase, run, first_run, generator, vm>>

CheckCompatibility ==
    /\ \E type1 \in TypeInputs, type2 \in TypeInputs :
          last_call' = [op |-> "check_compatibility",
                        params |-> [type1 |-> type1, type2 |-> type2],
                        ret |-> RetBool(check_compatibility(type1, type2))]
    /\ TypesFrame

CanConvert ==
    /\ \E from_type \in TypeInputs, to_type \in TypeInputs :
          last_call' = [op |-> "can_convert",
                        params |-> [from_type |-> from_type, to_type |-> to_type],
                        ret |-> RetBool(can_convert(from_type, to_type))]
    /\ TypesFrame

GetOperationResultType ==
    /\ \E operator \in OperatorInputs, left_type \in TypeInputs, right_type \in TypeInputs :
          last_call' = [op |-> "get_operation_result_type",
                        params |-> [operator |-> operator, left_type |-> left_type,
                                    right_type |-> right_type],
                        ret |-> get_operation_result_type(operator, left_type, right_type)]
    /\ TypesFrame

ValidateAssignment ==
    /\ \E target_type \in TypeInputs, value_type \in TypeInputs :
          last_call' = [op |-> "validate_assignment",
                        params |-> [target_type |-> target_type, value_type |-> value_type],
                        ret |-> validate_assignment(target_type, value_type)]
    /\ TypesFrame

TypesNext ==
    \/ CheckCompatibility
    \/ CanConvert
    \/ GetOperationResultType
    \/ ValidateAssignment

SpecTypes == TypesInit /\ [][TypesNext]_vars

(***************************************************************************)
(* Input trees of SemanticAnalyzer.  A program is written as a listing, one *)
(* statement per line; line i of the listing is source line i.  `open`      *)
(* starts the body of an if / while / do-until, `end` closes the innermost  *)
(* open body, and the end of the listing closes the bodies still open.      *)
(* BuildTree gives the tree src/sintactico.py builds for the listing (node   *)
(* types, values, positions and child order), with two additions a caller   *)
(* of analyze() can make by hand, as the tests do: a construct node carries *)
(* its source line, and a body may hold declarations.                       *)
(***************************************************************************)
MaxLines == 4                  \* lines of a scoping listing

ProgramNames == {"x"}
DeclTypes == {"int", "float"}
LiteralKinds == {"NUM_INT", "NUM_FLOAT", "BOOLEANO"}

DeclLine(t, n) == [k |-> "decl", tipo |-> t, name |-> n]
InLine(n) == [k |-> "in", tipo |-> NoneStr, name |-> n]
OpenLine(c) == [k |-> "open", tipo |-> c, name |-> NoneStr]
EndLine == [k |-> "end", tipo |-> NoneStr, name |-> NoneStr]
\* form "assign": '=' over [ID, literal]; form "assign_parsed": the parser's
\* '=' over [ID, SENT_EXPRESION[COMPONENTE[literal]]]
AssignLine(form, lit, n) == [k |-> form, tipo |-> lit, name |-> n]

LiteralText(lit) ==
    CASE lit = "NUM_INT" -> "3"
      [] lit = "NUM_FLOAT" -> "2.5"
      [] lit = "BOOLEANO" -> "true"

\* opens minus ends among lines i..m
Balance(lines, i, m) ==
    Cardinality({p \in i..m : lines[p].k = "open"})
      - Cardinality({p \in i..m : lines[p].k = "end"})

\* the line closing the construct opened at line i (Len + 1: the end of the listing)
EndOf(lines, i) ==
    LET closing == {j \in (i + 1)..Len(lines) : Balance(lines, i, j) = 0}
    IN IF closing = {} THEN Len(lines) + 1 ELSE MinOf(closing)

WellFormed(lines) ==
    /\ \A m \in 1..Len(lines) : Balance(lines, 1, m) >= 0
    /\ lines[Len(lines)].k # "end"

\* sintactico.py componente(): COMPONENTE over the literal token
ComponenteNode(lit, i, col) ==
    Nodo("COMPONENTE", NoneStr, 0, 0, <<Nodo(lit, LiteralText(lit), i, col, <<>>)>>)

\* sintactico.py declaracion_variable(), sent_in(), asignacion()
StatementNode(line, i) ==
    CASE line.k = "decl" ->
            Nodo("DECLARACION_VARIABLE", NoneStr, 0, 0,
                 << Nodo("TIPO", line.tipo, i, 1, <<>>),
                    Nodo("IDENTIFICADOR", NoneStr, 0, 0,
                         <<Nodo("ID", line.name, i, 7, <<>>)>>) >>)
      [] line.k = "in" ->
            Nodo("SENT_IN", NoneStr, 0, 0, <<Nodo("ID", line.name, i, 8, <<>>)>>)
      [] line.k = "assign" ->
            Nodo("=", "=", i, 1,
                 << Nodo("ID", line.name, i, 1, <<>>),
                    Nodo(line.tipo, LiteralText(line.tipo), i, 5, <<>>) >>)
      [] line.k = "assign_parsed" ->
            Nodo("=", "=", i, 1,
                 << Nodo("ID", line.name, i, 1, <<>>),
                    Nodo("SENT_EXPRESION", NoneStr, 0, 0,
                         <<ComponenteNode(line.tipo, i, 5)>>) >>)

\* sintactico.py seleccion(), iteracion(), repeticion(): the condition and, when
\* it is not empty, the LISTA_SENTENCIAS of the body
ConstructNode(tipo, i, body) ==
    LET cond == ComponenteNode("BOOLEANO", i, 4)
        lista == IF body = <<>>
                 THEN <<>>
                 ELSE <<Nodo("LISTA_SENTENCIAS", NoneStr, 0, 0, body)>>
    IN Nodo(tipo, NoneStr, i, 1,
            IF tipo = "REPETICION" THEN lista \o <<cond>> ELSE <<cond>> \o lista)

\* the statements of lines i..j
RECURSIVE Statements(_, _, _)
Statements(lines, i, j) ==
    IF i > j
    THEN <<>>
    ELSE IF lines[i].k = "open"
    THEN LET e == IF EndOf(lines, i) <= j THEN EndOf(lines, i) ELSE j + 1
         IN <<ConstructNode(lines[i].tipo, i, Statements(lines, i + 1, e - 1))>>
               \o Statements(lines, e + 1, j)
    ELSE <<StatementNode(lines[i], i)>> \o Statements(lines, i + 1, j)

\* sintactico.py programa(), lista_declaracion()
BuildTree(lines) ==
    Nodo("PROGRAMA", NoneStr, 0, 0,
         <<Nodo("LISTA_DECLARACION", NoneStr, 0, 0, Statements(lines, 1, Len(lines)))>>)

Listings(alphabet, max_lines) ==
    {lines \in UNION {[1..n -> alphabet] : n \in 1..max_lines} : WellFormed(lines)}

ScopingLines ==
    {DeclLine(t, n) : t \in DeclTypes, n \in ProgramNames}
      \cup {InLine(n) : n \in ProgramNames}
      \cup {OpenLine(c) : c \in ScopeKinds}
      \cup {EndLine}

\* trees that declare and read variables in and out of constructs
ScopingTrees == {BuildTree(lines) : lines \in Listings(ScopingLines, MaxLines)}

\* trees `T x; x = literal;` in both forms of the assignment
AssignmentTrees ==
    {BuildTree(<<DeclLine(t, n), AssignLine(form, lit, n)>>) :
        t \in DeclTypes \cup {"boolean"}, n \in ProgramNames,
        form \in {"assign", "assign_parsed"}, lit \in LiteralKinds}

(***************************************************************************)
(* SemanticAnalyzer.analyze(), one action per phase; phase names the phase  *)
(* that runs next.  When the first instance has returned, a second, freshly *)
(* constructed SemanticAnalyzer analyses the same tree.                     *)
(***************************************************************************)
Shared == [symbol_table |-> symbol_table, error_reporter |-> error_reporter]

\* SemanticAnalyzer.__init__ on a given tree
AnalyzerInit(trees) ==
    /\ ast \in trees
    /\ symbol_table = SymbolTable_init
    /\ error_reporter = ErrorReporter_init
    /\ annotated_ast = None
    /\ phase = "fase1"
    /\ run = 1
    /\ first_run = None
    /\ last_call = NoCall
    /\ generator = None
    /\ vm = None

\* an analyze() that returns on a missing tree without recording anything
Fase1_without_diagnostic ==
    /\ phase = "fase1"
    /\ IF ast = None
       THEN /\ phase' = "done"
            /\ UNCHANGED <<symbol_table, error_reporter>>
       ELSE \E self \in {_build_symbol_table(Shared, ast)} :
               /\ symbol_table' = self.symbol_table
               /\ error_reporter' = self.error_reporter
               /\ phase' = "fase2"
    /\ UNCHANGED <<ast, annotated_ast, run, first_run, last_call, generator, vm>>

\* if not self.ast: ... return; else Fase 1: _build_symbol_table(self.ast)
Fase1 ==
    /\ phase = "fase1"
    /\ IF ast = None
       THEN /\ error_reporter' = add_error(error_reporter, "analysis_error",
                                           <<"No hay AST disponible para analisis semantico">>,
                                           0, 0, "error")
            /\ phase' = "done"
            /\ UNCHANGED symbol_table
       ELSE \E self \in {_build_symbol_table(Shared, ast)} :
               /\ symbol_table' = self.symbol_table
               /\ error_reporter' = self.error_reporter
               /\ phase' = "fase2"
    /\ UNCHANGED <<ast, annotated_ast, run, first_run, last_call, generator, vm>>

\* Fase 2: error_detector.check_undeclared_variables(self.ast)
Fase2 ==
    /\ phase = "fase2"
    /\ \E self \in {check_undeclared_variables(Shared, ast).self} :
          /\ symbol_table' = self.symbol_table
          /\ error_reporter' = self.error_reporter
    /\ phase' = "fase3"
    /\ UNCHANGED <<ast, annotated_ast, run, first_run, last_call, generator, vm>>

\* Fase 3: error_detector.check_type_compatibility(self.ast)
Fase3 ==
    /\ phase = "fase3"
    /\ \E self \in {check_type_compatibility(Shared, ast).self} :
          /\ symbol_table' = self.symbol_table
          /\ error_reporter' = self.error_reporter
    /\ phase' = "fase4"
    /\ UNCHANGED <<ast, annotated_ast, run, first_run, last_call, generator, vm>>

\* Fase 4: error_detector.check_invalid_conversions(self.ast)
Fase4 ==
    /\ phase = "fase4"
    /\ \E self \in {check_invalid_conversions(Shared, ast).self} :
          /\ symbol_table' = self.symbol_table
          /\ error_reporter' = self.error_reporter
    /\ phase' = "fase5"
    /\ UNCHANGED <<ast, annotated_ast, run, first_run, last_call, generator, vm>>

\* Fase 5: self.annotated_ast = self.visitor.visit(self.ast); return
Fase5 ==
    /\ phase = "fase5"
    /\ \E r \in {visit(Shared, ast)} :
          /\ symbol_table' = r.self.symbol_table
          /\ error_reporter' = r.self.error_reporter
          /\ annotated_ast' = r.ret
    /\ phase' = "done"
    /\ UNCHANGED <<ast, run, first_run, last_call, generator, vm>>

\* what analyze() returned: (annotated_ast, symbol_table, error_reporter.get_errors())
Returned ==
    [annotated_ast |-> annotated_ast, symbol_table |-> symbol_table,
     errors |-> get_errors(error_reporter)]

\* a second SemanticAnalyzer whose SymbolTable goes on counting addresses where
\* the first one's stopped (a memory_counter shared by all instances)
SecondAnalyzer_shared_counter ==
    /\ phase = "done"
    /\ run = 1
    /\ first_run' = Returned
    /\ run' = 2
    /\ symbol_table' = [SymbolTable_init EXCEPT
                            !.memory_counter = symbol_table.memory_counter]
    /\ error_reporter' = ErrorReporter_init
    /\ annotated_ast' = None
    /\ phase' = "fase1"
    /\ UNCHANGED <<ast, last_call, generator, vm>>

\* SemanticAnalyzer(ast) a second time, on the tree the first instance analysed
SecondAnalyzer ==
    /\ phase = "done"
    /\ run = 1
    /\ first_run' = Returned
    /\ run' = 2
    /\ symbol_table' = SymbolTable_init
    /\ error_reporter' = ErrorReporter_init
    /\ annotated_ast' = None
    /\ phase' = "fase1"
    /\ UNCHANGED <<ast, last_call, generator, vm>>

AnalyzerNext ==
    \/ Fase1
    \/ Fase2
    \/ Fase3
    \/ Fase4
    \/ Fase5
    \/ SecondAnalyzer

ScopingInit == AnalyzerInit(ScopingTrees)

SpecScoping == ScopingInit /\ [][AnalyzerNext]_vars

AssignmentInit == AnalyzerInit(AssignmentTrees)

SpecAssignment == AssignmentInit /\ [][AnalyzerNext]_vars

(***************************************************************************)
(* Trees a caller can hand to analyze() that the parser never builds: no    *)
(* tree at all, and trees holding a '=' node with fewer than two children   *)
(* (none, only the target, only the value), alone or between a declaration  *)
(* of the target and a well-formed statement.                               *)
(***************************************************************************)
AssignShapes == {"empty", "target", "value"}

MalformedAssignment(shape, name, i) ==
    Nodo("=", "=", i, 3,
         CASE shape = "empty" -> <<>>
           [] shape = "target" -> <<Nodo("ID", name, i, 1, <<>>)>>
           [] shape = "value" -> <<Nodo("NUM_INT", LiteralText("NUM_INT"), i, 5, <<>>)>>)

StatementsBefore == {<<>>} \cup {<<DeclLine(t, n)>> : t \in DeclTypes, n \in ProgramNames}

StatementsAfter ==
    {<<>>} \cup {<<InLine(n)>> : n \in ProgramNames}
           \cup {<<AssignLine("assign", "NUM_INT", n)>> : n \in ProgramNames}

MalformedTree(before, shape, name, after) ==
    Nodo("PROGRAMA", NoneStr, 0, 0,
         <<Nodo("LISTA_DECLARACION", NoneStr, 0, 0,
                Statements(before, 1, Len(before))
                  \o <<MalformedAssignment(shape, name, Len(before) + 1)>>
                  \o [k \in DOMAIN after |-> StatementNode(after[k], Len(before) + 1 + k)])>>)

MalformedTrees ==
    {MalformedTree(before, shape, name, after) :
        before \in StatementsBefore, shape \in AssignShapes, name \in ProgramNames,
        after \in StatementsAfter}

MalformedInit == AnalyzerInit({None} \cup MalformedTrees)

SpecMalformed == MalformedInit /\ [][AnalyzerNext]_vars

(***************************************************************************)
(* Trees of one binary operation over two literals, `left op right`, the    *)
(* operator node over its two operand nodes as the tests build it.          *)
(***************************************************************************)
OperatorNode(op, left, right, i) ==
    Nodo(op, op, i, 3,
         << Nodo(left, LiteralText(left), i, 1, <<>>),
            Nodo(right, LiteralText(right), i, 5, <<>>) >>)

OperatorTrees ==
    {Nodo("PROGRAMA", NoneStr, 0, 0,
          <<Nodo("LISTA_DECLARACION", NoneStr, 0, 0, <<OperatorNode(op, left, right, 1)>>)>>) :
        op \in ArithmeticOps \cup RelationalOps \cup LogicalOps,
        left \in LiteralKinds, right \in LiteralKinds}

OperatorInit == AnalyzerInit(OperatorTrees)

SpecOperators == OperatorInit /\ [][AnalyzerNext]_vars

(***************************************************************************)
(* The programs of the whole pipeline and their trees as the parser         *)
(* (src/sintactico.py) builds them.  `main {` is line 1 and every           *)
(* declaration, statement, `else` and `end` is on a line of its own.        *)
(*   calculation:  int x;  x = a op1 b op2 c;  cout << x;                   *)
(*   control flow: int a;  int x;  one statement S, where                   *)
(*     S ::= x = 1; | a = a + 1; | if a < n then S* [else S*] end           *)
(*         | while a < n S* end                                             *)
(***************************************************************************)
MaxDepth == 2                  \* nesting depth of if / while in a program
MaxBody == 1                   \* statements in a body

CalcOperands == {"2", "3", "4"}
CalcOperators == {"+", "*"}
CondLimits == {"0", "2"}

Leaf(tipo, valor, linea, columna) == Nodo(tipo, valor, linea, columna, <<>>)

Componente(tipo, valor, linea, columna) ==
    Nodo("COMPONENTE", NoneStr, 0, 0, <<Leaf(tipo, valor, linea, columna)>>)

\* expresion_simple() / termino(): left to right, `*` binding tighter than `+`
CalcExpression(p, l) ==
    LET a == Componente("NUM_INT", p.a, l, 5)
        b == Componente("NUM_INT", p.b, l, 9)
        c == Componente("NUM_INT", p.c, l, 13)
    IN IF p.op1 = "+" /\ p.op2 = "*"
       THEN Nodo(p.op1, p.op1, l, 7, <<a, Nodo(p.op2, p.op2, l, 11, <<b, c>>)>>)
       ELSE Nodo(p.op2, p.op2, l, 11, <<Nodo(p.op1, p.op1, l, 7, <<a, b>>), c>>)

Declaracion(tipo, name, l) ==
    Nodo("DECLARACION_VARIABLE", NoneStr, 0, 0,
         << Leaf("TIPO", tipo, l, 1),
            Nodo("IDENTIFICADOR", NoneStr, 0, 0, <<Leaf("ID", name, l, 5)>>) >>)

Asignacion(name, expr, l) ==
    Nodo("=", "=", l, 1,
         <<Leaf("ID", name, l, 1), Nodo("SENT_EXPRESION", NoneStr, 0, 0, <<expr>>)>>)

Programa(declarations) ==
    Nodo("PROGRAMA", NoneStr, 0, 0,
         <<Nodo("LISTA_DECLARACION", NoneStr, 0, 0, declarations)>>)

CalcPrograms ==
    [k : {"calc"}, a : CalcOperands, op1 : CalcOperators, b : CalcOperands,
     op2 : CalcOperators, c : CalcOperands]

CalcTree(p) ==
    Programa(<< Declaracion("int", "x", 2),
                Asignacion("x", CalcExpression(p, 3), 3),
                Nodo("SENT_OUT", NoneStr, 0, 0,
                     <<Nodo("SALIDA", NoneStr, 0, 0, <<Componente("ID", "x", 4, 9)>>)>>) >>)

\* statements: [k, n, body, has_else, orelse]
SimpleStatement(k) == [k |-> k, n |-> "0", body |-> <<>>, has_else |-> FALSE, orelse |-> <<>>]

RECURSIVE StatementsOfDepth(_)
Bodies(d) == {<<>>} \cup UNION {[1..len -> StatementsOfDepth(d)] : len \in 1..MaxBody}

StatementsOfDepth(d) ==
    {SimpleStatement("assign"), SimpleStatement("incr")}
      \cup (IF d = 0 THEN {}
            ELSE [k : {"if"}, n : CondLimits, body : Bodies(d - 1),
                  has_else : {FALSE}, orelse : {<<>>}]
                 \cup [k : {"if"}, n : CondLimits, body : Bodies(d - 1),
                       has_else : {TRUE}, orelse : Bodies(d - 1)]
                 \cup [k : {"while"}, n : CondLimits, body : Bodies(d - 1),
                       has_else : {FALSE}, orelse : {<<>>}])

\* the number of source lines of a statement
RECURSIVE LinesOf(_)
LinesOfAll(stmts) ==
    LET RECURSIVE sum(_)
        sum(i) == IF i > Len(stmts) THEN 0 ELSE LinesOf(stmts[i]) + sum(i + 1)
    IN sum(1)

LinesOf(s) ==
    IF s.k \in {"assign", "incr"} THEN 1
    ELSE 2 + LinesOfAll(s.body) + (IF s.has_else THEN 1 + LinesOfAll(s.orelse) ELSE 0)

\* relational condition `a < n`; c is the column of `a`
Condition(n, l, c) ==
    Nodo("<", "<", l, c + 2,
         <<Componente("ID", "a", l, c), Componente("NUM_INT", n, l, c + 4)>>)

\* sentencia(), seleccion(), iteracion(), lista_sentencias(): the tree of a
\* statement that starts on line l
RECURSIVE StatementTree(_, _)
RECURSIVE StatementTrees(_, _, _)
StatementTrees(stmts, i, l) ==
    IF i > Len(stmts) THEN <<>>
    ELSE <<StatementTree(stmts[i], l)>>
           \o StatementTrees(stmts, i + 1, l + LinesOf(stmts[i]))

\* lista_sentencias() yields no node for an empty list
ListaSentencias(stmts, l) ==
    IF stmts = <<>> THEN <<>>
    ELSE <<Nodo("LISTA_SENTENCIAS", NoneStr, 0, 0, StatementTrees(stmts, 1, l))>>

StatementTree(s, l) ==
    CASE s.k = "assign" -> Asignacion("x", Componente("NUM_INT", "1", l, 5), l)
      [] s.k = "incr" ->
            Asignacion("a", Nodo("+", "+", l, 7,
                                 <<Componente("ID", "a", l, 5),
                                   Componente("NUM_INT", "1", l, 9)>>), l)
      [] s.k = "if" ->
            Nodo("SELECCION", NoneStr, 0, 0,
                 <<Condition(s.n, l, 4)>> \o ListaSentencias(s.body, l + 1)
                   \o (IF s.has_else
                       THEN <<Nodo("ELSE", NoneStr, 0, 0,
                                   ListaSentencias(s.orelse, l + 2 + LinesOfAll(s.body)))>>
                       ELSE <<>>))
      [] s.k = "while" ->
            Nodo("ITERACION", NoneStr, 0, 0,
                 <<Condition(s.n, l, 7)>> \o ListaSentencias(s.body, l + 1))
      [] s.k = "repeat" ->
            Nodo("REPETICION", NoneStr, 0, 0,
                 ListaSentencias(s.body, l + 1)
                   \o <<Condition(s.n, l + 1 + LinesOfAll(s.body), 7)>>)

ControlPrograms == StatementsOfDepth(MaxDepth) \ StatementsOfDepth(0)

ControlTree(s) ==
    Programa(<<Declaracion("int", "a", 2), Declaracion("int", "x", 3), StatementTree(s, 4)>>)

PipelineTrees == {CalcTree(p) : p \in CalcPrograms} \cup {ControlTree(s) : s \in ControlPrograms}

\* repeticion(): do <body> until a < n, the body without a loop of its own
RepeatBodies ==
    {<<>>} \cup UNION {[1..len -> {s \in StatementsOfDepth(1) : s.k # "while"}] :
                          len \in 1..MaxBody}

RepeatPrograms ==
    [k : {"repeat"}, n : CondLimits, body : RepeatBodies, has_else : {FALSE}, orelse : {<<>>}]

RepeatTrees == {ControlTree(s) : s \in RepeatPrograms}

(***************************************************************************)
(* The TACGenerator harness: a client calls _gen_expr on expression nodes   *)
(* of one generator: the literals and an identifier, bare and inside the    *)
(* parser's COMPONENTE, and binary operations over them.                    *)
(***************************************************************************)
MaxInstructions == 2           \* instructions emitted by the harness

ExpressionLeaves ==
    {Leaf("NUM_INT", "3", 1, 5), Leaf("NUM_FLOAT", "2.5", 1, 5),
     Leaf("BOOLEANO", "true", 1, 5), Leaf("BOOLEANO", "false", 1, 5),
     Leaf("ID", "x", 1, 5)}

ExpressionNodes ==
    ExpressionLeaves
      \cup {Nodo("COMPONENTE", NoneStr, 0, 0, <<leaf>>) : leaf \in ExpressionLeaves}
      \cup {Nodo(op, op, 1, 7, <<left, right>>) :
               op \in {"+", "<"}, left \in ExpressionLeaves, right \in ExpressionLeaves}

LoweringInit ==
    /\ generator = TACGenerator_init
    /\ phase = "lowering"
    /\ symbol_table = SymbolTable_init
    /\ error_reporter = ErrorReporter_init
    /\ last_call = NoCall
    /\ ast = None
    /\ annotated_ast = None
    /\ run = 1
    /\ first_run = None
    /\ vm = None

GenExpr ==
    /\ phase = "lowering"
    /\ Len(generator.instructions) < MaxInstructions
    /\ \E node \in ExpressionNodes : \E r \in {_gen_expr(generator, node)} :
          /\ generator' = r.self
          /\ last_call' = [op |-> "_gen_expr", params |-> [node |-> node],
                           ret |-> RetStr(r.ret)]
    /\ UNCHANGED <<symbol_table, error_reporter, ast, annotated_ast, phase, run,
                   first_run, vm>>

LoweringNext == GenExpr

SpecLowering == LoweringInit /\ [][LoweringNext]_vars

(***************************************************************************)
(* ejecutar_tac_desde_fuente (src/codigo_intermedio.py): analyse, lower to  *)
(* TAC, construct the interpreter and run it, one instruction per step.     *)
(***************************************************************************)
ReadTexts == {"0", "2", "2.5", "abc"}      \* what read_func may return

\* gen = TACGenerator(); gen.generate_program(annotated_ast)
GenerateProgram ==
    /\ phase = "done"
    /\ annotated_ast # None
    /\ generator' = generate_program(TACGenerator_init, annotated_ast)
    /\ phase' = "generated"
    /\ UNCHANGED <<symbol_table, error_reporter, last_call, ast, annotated_ast, run,
                   first_run, vm>>

\* vm = TACInterpreter(instructions, read_func, write_func), with or without a
\* write callback
NewInterpreter ==
    /\ phase = "generated"
    /\ generator.instructions # <<>>
    /\ \E write_func \in BOOLEAN :
          vm' = TACInterpreter_init(generator.instructions, write_func)
    /\ phase' = "running"
    /\ UNCHANGED <<symbol_table, error_reporter, last_call, ast, annotated_ast, run,
                   first_run, generator>>

\* one turn of the loop of run(); an exception leaves run()
RunStep ==
    /\ phase = "running"
    /\ vm.pc < Len(vm.instructions)
    /\ \E input \in ReadTexts : \E s \in {run_step(vm, input)} :
          /\ vm' = s
          /\ phase' = IF s.raised # None THEN "raised" ELSE "running"
    /\ UNCHANGED <<symbol_table, error_reporter, last_call, ast, annotated_ast, run,
                   first_run, generator>>

\* the loop of run() is over: run() returns
RunReturn ==
    /\ phase = "running"
    /\ vm.pc >= Len(vm.instructions)
    /\ vm' = run_return(vm)
    /\ phase' = "finished"
    /\ UNCHANGED <<symbol_table, error_reporter, last_call, ast, annotated_ast, run,
                   first_run, generator>>

PipelineInit == AnalyzerInit(PipelineTrees)

PipelineNext ==
    \/ Fase1
    \/ Fase2
    \/ Fase3
    \/ Fase4
    \/ Fase5
    \/ GenerateProgram
    \/ NewInterpreter
    \/ RunStep
    \/ RunReturn

SpecPipeline == PipelineInit /\ [][PipelineNext]_vars

\* the pipeline on the do-until programs
RepeatInit == AnalyzerInit(RepeatTrees)

SpecRepeat == RepeatInit /\ [][PipelineNext]_vars

(***************************************************************************)
(* The interpreter on TAC written by hand: TACInterpreter(instructions,     *)
(* read_func, write_func).run().                                            *)
(*   division programs: [y = 0 | READ y]  x = a op z  PRINT x               *)
(*   print programs:    up to MaxTac instructions out of PrintInstructions  *)
(* A print program may loop; run() is followed until MaxOutput lines are    *)
(* printed.                                                                 *)
(***************************************************************************)
MaxTac == 3                    \* instructions of a print program
MaxOutput == 3                 \* lines printed before the run is left alone

LeftOperands == {"5", "2.5", "y"}
Divisors == {"0", "0.0", "y", "2"}
Exponents == {"2", "-1"}

DivisionInstructions ==
    {<<"x", "=", a, op, z>> : a \in LeftOperands, op \in {"/", "%"}, z \in Divisors}
        \cup {<<"x", "=", a, "^", e>> : a \in LeftOperands, e \in Exponents}

DivisionPrograms ==
    {prefix \o <<inst, <<"PRINT", "x">> >> :
        prefix \in {<<>>, << <<"y", "=", "0">> >>, << <<"READ", "y">> >>},
        inst \in DivisionInstructions}

PrintInstructions ==
    { <<"t1", "=", "3", "+", "4">>,
      <<"PRINT", "t1">>,
      <<"PRINT_STR", Quote, "hola mundo", Quote>>,
      <<"PRINT_STR", "hola">>,
      <<"GOTO", "L1">>,
      <<"LABEL", "L1">>,
      <<"IF_FALSE", "t1", "GOTO", "L1">> }

PrintPrograms == UNION {[1..len -> PrintInstructions] : len \in 1..MaxTac}

TacPrograms == DivisionPrograms \cup PrintPrograms

TacInit ==
    /\ \E instructions \in TacPrograms, write_func \in BOOLEAN :
          vm = TACInterpreter_init(instructions, write_func)
    /\ phase = "running"
    /\ generator = None
    /\ symbol_table = SymbolTable_init
    /\ error_reporter = ErrorReporter_init
    /\ last_call = NoCall
    /\ ast = None
    /\ annotated_ast = None
    /\ run = 1
    /\ first_run = None

\* a turn of the loop of run(), while fewer than MaxOutput lines are printed
TacStep ==
    /\ Len(vm.output_lines) < MaxOutput
    /\ RunStep

TacNext ==
    \/ TacStep
    \/ RunReturn

SpecTac == TacInit /\ [][TacNext]_vars

(***************************************************************************)
(* Claims about the symbol table (checked under SpecTable).                 *)
(***************************************************************************)
\* the entries of scope sid, declared on the stack or not
EntriesOf(st, sid) == DictValues(DictGet(st.symbols, sid))

Declares(st, sid, name) == \E i \in DOMAIN EntriesOf(st, sid) : EntriesOf(st, sid)[i].name = name

AllScopeIds(st) == {st.symbols[i].key : i \in DOMAIN st.symbols}

\* C3: the scope stack is never empty and its bottom is the global scope made by
\* the constructor; exit_scope() with only the global scope left returns None and
\* changes nothing in the table.
C3_GlobalScopeNeverExited ==
    /\ [](Len(symbol_table.scopes) >= 1 /\ symbol_table.scopes[1] = "global_0")
    /\ [][(last_call'.op = "exit_scope" /\ Len(symbol_table.scopes) = 1)
            => (last_call'.ret = RetStr(NoneStr) /\ symbol_table' = symbol_table)]_vars

C3_Witness ==
    /\ last_call.op = "exit_scope"
    /\ last_call.ret = RetStr(NoneStr)
    /\ Len(get_all_symbols(symbol_table)) >= 1
    /\ symbol_table.current_scope_id > 1

\* C4: declare_variable returns False iff the innermost scope already holds the
\* name (an enclosing scope holding it does not matter); on True the entry is
\* appended to the innermost scope and every other scope keeps its entries.
C4_DeclareIsScopeLocal ==
    [][last_call'.op = "declare_variable" =>
        LET name == last_call'.params.name
            cur == symbol_table.scopes[Len(symbol_table.scopes)]
        IN /\ (last_call'.ret = RetBool(FALSE)) <=> Declares(symbol_table, cur, name)
           /\ last_call'.ret = RetBool(FALSE) => symbol_table' = symbol_table
           /\ last_call'.ret = RetBool(TRUE) =>
                /\ AllScopeIds(symbol_table') = AllScopeIds(symbol_table)
                /\ symbol_table'.scopes = symbol_table.scopes
                /\ \A sid \in AllScopeIds(symbol_table) \ {cur} :
                       EntriesOf(symbol_table', sid) = EntriesOf(symbol_table, sid)
                /\ Len(EntriesOf(symbol_table', cur)) = Len(EntriesOf(symbol_table, cur)) + 1
                /\ SubSeq(EntriesOf(symbol_table', cur), 1, Len(EntriesOf(symbol_table, cur)))
                      = EntriesOf(symbol_table, cur)
                /\ LET e == EntriesOf(symbol_table', cur)[Len(EntriesOf(symbol_table', cur))]
                   IN /\ e.name = name
                      /\ e.scope = cur
                      /\ e.type_info = last_call'.params.type_info
    ]_vars

\* a declaration succeeded in a nested scope although the global scope holds the name
C4_Witness ==
    /\ last_call.op = "declare_variable"
    /\ last_call.ret = RetBool(TRUE)
    /\ Len(symbol_table.scopes) = 2
    /\ Declares(symbol_table, symbol_table.scopes[1], last_call.params.name)
    /\ Declares(symbol_table, symbol_table.scopes[2], last_call.params.name)

\* the index in st.scopes of the innermost scope declaring name, 0 when there is none
InnermostDeclaring(st, name) ==
    IF \E i \in DOMAIN st.scopes : Declares(st, st.scopes[i], name)
    THEN CHOOSE i \in DOMAIN st.scopes :
            /\ Declares(st, st.scopes[i], name)
            /\ \A j \in DOMAIN st.scopes : j > i => ~Declares(st, st.scopes[j], name)
    ELSE 0

LookupIsInnermost(st, name, ret) ==
    LET i == InnermostDeclaring(st, name)
    IN IF i = 0
       THEN ret = None
       ELSE /\ ret # None
            /\ ret.name = name
            /\ ret.scope = st.scopes[i]
            /\ \E k \in DOMAIN EntriesOf(st, st.scopes[i]) : EntriesOf(st, st.scopes[i])[k] = ret

\* C5: lookup_variable returns the entry of the innermost scope on the stack that
\* declares the name and None iff no scope on the stack declares it; after
\* exit_scope a variable of the exited scope alone is no longer found and the
\* variables of the remaining scopes still are.
C5_LookupInnermostFirst ==
    /\ [](last_call.op = "lookup_variable" =>
            LookupIsInnermost(symbol_table, last_call.params.name, last_call.ret))
    /\ [][(last_call'.op = "exit_scope" /\ last_call'.ret # RetStr(NoneStr)) =>
            \A name \in Names :
               LET before == {i \in DOMAIN symbol_table.scopes :
                                 Declares(symbol_table, symbol_table.scopes[i], name)}
                   top == Len(symbol_table.scopes)
               IN /\ before = {top} => lookup_variable(symbol_table', name) = None
                  /\ before \ {top} # {} =>
                        /\ lookup_variable(symbol_table', name) # None
                        /\ lookup_variable(symbol_table', name).scope
                              = symbol_table.scopes[MaxOf(before \ {top})]
       ]_vars

\* a lookup answered from the nested scope while the global scope declares the name too
C5_Witness ==
    /\ last_call.op = "lookup_variable"
    /\ last_call.ret # None
    /\ Len(symbol_table.scopes) = 2
    /\ last_call.ret.scope = symbol_table.scopes[2]
    /\ Declares(symbol_table, symbol_table.scopes[1], last_call.params.name)

\* a lookup that finds nothing although an exited scope declared the name
C5_WitnessExited ==
    /\ last_call.op = "lookup_variable"
    /\ last_call.ret = None
    /\ \E sid \in AllScopeIds(symbol_table) : Declares(symbol_table, sid, last_call.params.name)

Addresses(st) == [i \in DOMAIN get_all_symbols(st) |-> get_all_symbols(st)[i].memory_address]

\* C6: every address is positive, no two symbols of get_all_symbols() share one
\* (exited scopes included), and a symbol declared later gets a strictly larger
\* address than every symbol declared before it.
C6_AddressesMonotonic ==
    /\ [](\A i \in DOMAIN Addresses(symbol_table) :
            /\ Addresses(symbol_table)[i] > 0
            /\ \A j \in DOMAIN Addresses(symbol_table) :
                  i # j => Addresses(symbol_table)[i] # Addresses(symbol_table)[j])
    /\ [][(last_call'.op = "declare_variable" /\ last_call'.ret = RetBool(TRUE)) =>
            LET cur == symbol_table.scopes[Len(symbol_table.scopes)]
                new == EntriesOf(symbol_table', cur)[Len(EntriesOf(symbol_table', cur))]
            IN \A i \in DOMAIN Addresses(symbol_table) :
                  Addresses(symbol_table)[i] < new.memory_address
       ]_vars

\* two symbols, the later one declared in a scope that has been exited since
C6_Witness ==
    /\ Len(get_all_symbols(symbol_table)) >= 2
    /\ \E i \in DOMAIN get_all_symbols(symbol_table) :
          /\ get_all_symbols(symbol_table)[i].scope \notin Range(symbol_table.scopes)
          /\ get_all_symbols(symbol_table)[i].memory_address > MEMORY_BASE

(***************************************************************************)
(* Claims about the type system (checked under SpecTypes).                  *)
(***************************************************************************)
IsBasic(t) == t # None /\ ~t.is_array /\ t.base_type \in BaseTypes

\* the promotion relation of the specification: int to float and nothing else
Promotes(a, b) == a.base_type = "int" /\ b.base_type = "float"

Compatible(a, b) == a.base_type = b.base_type \/ Promotes(a, b) \/ Promotes(b, a)

\* C7: on int, float, boolean and void, check_compatibility is symmetric and is
\* true iff the types are equal or one promotes to the other; (float, int) is
\* compatible both ways although can_convert(float, int) is false.
C7_CompatibilitySymmetric ==
    /\ (/\ last_call.op = "check_compatibility"
        /\ IsBasic(last_call.params.type1)
        /\ IsBasic(last_call.params.type2))
          => /\ last_call.ret.bool
                   = check_compatibility(last_call.params.type2, last_call.params.type1)
             /\ last_call.ret.bool
                   = Compatible(last_call.params.type1, last_call.params.type2)
    /\ (/\ last_call.op = "can_convert"
        /\ last_call.params.from_type = TIPO_FLOAT
        /\ last_call.params.to_type = TIPO_INT)
          => last_call.ret = RetBool(FALSE)

C7_Witness ==
    /\ last_call.op = "check_compatibility"
    /\ last_call.params.type1 = TIPO_FLOAT
    /\ last_call.params.type2 = TIPO_INT
    /\ last_call.ret = RetBool(TRUE)

\* the reference table of the specification for result_type(op, a, b)
ResultTypeTable(operator, a, b) ==
    CASE operator \in RelationalOps ->
            IF Compatible(a, b) THEN TIPO_BOOLEAN ELSE None
      [] operator \in LogicalOps ->
            IF a = TIPO_BOOLEAN /\ b = TIPO_BOOLEAN THEN TIPO_BOOLEAN ELSE None
      [] operator \in {"+", "-", "*", "/", "^"} ->
            IF {a, b} \subseteq {TIPO_INT, TIPO_FLOAT}
            THEN IF TIPO_FLOAT \in {a, b} THEN TIPO_FLOAT ELSE TIPO_INT
            ELSE None
      [] operator = "%" ->
            IF a = TIPO_INT /\ b = TIPO_INT THEN TIPO_INT ELSE None

\* C9: for every operator and every pair of basic operand types,
\* get_operation_result_type equals the reference table.
C9_ResultTypeTable ==
    (/\ last_call.op = "get_operation_result_type"
     /\ last_call.params.operator \in ArithmeticOps \cup RelationalOps \cup LogicalOps
     /\ IsBasic(last_call.params.left_type)
     /\ IsBasic(last_call.params.right_type))
       => last_call.ret = ResultTypeTable(last_call.params.operator,
                                          last_call.params.left_type,
                                          last_call.params.right_type)

\* `%` with a float operand has no result type
C9_Witness ==
    /\ last_call.op = "get_operation_result_type"
    /\ last_call.params.operator = "%"
    /\ last_call.params.left_type = TIPO_FLOAT
    /\ last_call.params.right_type = TIPO_INT
    /\ last_call.ret = None

(***************************************************************************)
(* Claims about analyze() on scoping trees (checked under SpecScoping).     *)
(* Every source line holds at most one identifier, so a diagnostic belongs  *)
(* to the identifier on its line.                                           *)
(***************************************************************************)
\* the identifiers of a tree: name, line, the lines of the constructs around
\* it (outermost first) and whether it is the identifier of a declaration
RECURSIVE IdOccurrences(_, _, _)
IdOccurrences(node, path, in_decl) ==
    (IF node.tipo = "ID"
     THEN {[name |-> node.valor, line |-> node.linea, path |-> path, decl |-> in_decl]}
     ELSE {})
      \cup UNION {IdOccurrences(node.hijos[i],
                                IF node.tipo \in ScopeKinds
                                THEN Append(path, node.linea)
                                ELSE path,
                                in_decl \/ node.tipo = "DECLARACION_VARIABLE") :
                   i \in DOMAIN node.hijos}

Declarations(tree) == {o \in IdOccurrences(tree, <<>>, FALSE) : o.decl}

Uses(tree) == {o \in IdOccurrences(tree, <<>>, FALSE) : ~o.decl}

IsPrefix(p, q) == Len(p) <= Len(q) /\ SubSeq(q, 1, Len(p)) = p

HasError(error_type, line) ==
    \E i \in DOMAIN error_reporter.errors :
        /\ error_reporter.errors[i].error_type = error_type
        /\ error_reporter.errors[i].line = line

\* C1: when analyze() has returned, a use of a variable declared inside an
\* if / while / do-until body has an undeclared_variable diagnostic if it comes
\* after the end of that construct (and no declaration of the name is in a scope
\* around the use), and has none if it is anywhere inside that construct.
C1_ScopedResolution ==
    (phase = "done" /\ ast # None) =>
        \A d \in Declarations(ast) : \A u \in Uses(ast) :
            (d.path # <<>> /\ u.name = d.name) =>
                /\ IsPrefix(d.path, u.path)
                      => ~HasError("undeclared_variable", u.line)
                /\ (/\ u.line > d.line
                    /\ ~IsPrefix(d.path, u.path)
                    /\ \A e \in Declarations(ast) :
                          e.name = u.name => ~IsPrefix(e.path, u.path))
                      => HasError("undeclared_variable", u.line)

\* C2: when analyze() has returned, a declaration has a duplicate_declaration
\* diagnostic iff the same name was declared earlier in the same scope (so x at
\* global scope and x inside an if body give none, two x at global scope give
\* one for the second).
C2_DuplicatesAreScopeLocal ==
    (phase = "done" /\ ast # None) =>
        \A d \in Declarations(ast) :
            HasError("duplicate_declaration", d.line)
              <=> \E e \in Declarations(ast) :
                     e.name = d.name /\ e.path = d.path /\ e.line < d.line

\* name, scope and memory address of every declared symbol
SymbolAddresses(st) ==
    [i \in DOMAIN get_all_symbols(st) |->
        [name |-> get_all_symbols(st)[i].name,
         scope |-> get_all_symbols(st)[i].scope,
         memory_address |-> get_all_symbols(st)[i].memory_address]]

DeclaredType(tree) == TypeInfo(tree.hijos[1].hijos[1].hijos[1].valor)

AssignedVariable(tree) == tree.hijos[1].hijos[2].hijos[1].valor

\* the literal on the right of the assignment, under the parser's wrappers if any
AssignedLiteral(tree) ==
    LET rhs == tree.hijos[1].hijos[2].hijos[2]
    IN IF rhs.tipo = "SENT_EXPRESION" THEN rhs.hijos[1].hijos[1] ELSE rhs

ValueType(tree) ==
    CASE AssignedLiteral(tree).tipo = "NUM_INT" -> TIPO_INT
      [] AssignedLiteral(tree).tipo = "NUM_FLOAT" -> TIPO_FLOAT
      [] AssignedLiteral(tree).tipo = "BOOLEANO" -> TIPO_BOOLEAN

\* the diagnostics about the assignment: all but those about declarations
AssignmentDiagnostics ==
    {i \in DOMAIN error_reporter.errors :
        error_reporter.errors[i].error_type
            \notin {"duplicate_declaration", "undeclared_variable"}}

NamesAssignment(message, variable, target_type, value_type) ==
    /\ variable \in Range(message)
    /\ target_type.base_type \in Range(message)
    /\ value_type.base_type \in Range(message)

\* C8: when analyze() has returned, the assignment has no diagnostic iff the
\* value type equals the target type or promotes to it; a float value assigned
\* to an int variable has a type_incompatibility diagnostic naming the variable,
\* the target type and the value type; an int value assigned to a float
\* variable has no diagnostic.
C8_AssignmentAcceptance ==
    (phase = "done" /\ ast # None) =>
        LET target == DeclaredType(ast)
            value == ValueType(ast)
        IN /\ (AssignmentDiagnostics = {})
                 <=> (value = target \/ Promotes(value, target))
           /\ (value = TIPO_FLOAT /\ target = TIPO_INT)
                 => \E i \in AssignmentDiagnostics :
                       /\ error_reporter.errors[i].error_type = "type_incompatibility"
                       /\ NamesAssignment(error_reporter.errors[i].message,
                                          AssignedVariable(ast), target, value)
           /\ (value = TIPO_INT /\ target = TIPO_FLOAT)
                 => AssignmentDiagnostics = {}

(***************************************************************************)
(* Claims about the whole pipeline (checked under SpecPipeline).            *)
(***************************************************************************)
\* the tree of `int x; x = 2 + 3 * 4; cout << x;`
PrecedenceProgram ==
    CalcTree([k |-> "calc", a |-> "2", op1 |-> "+", b |-> "3", op2 |-> "*", c |-> "4"])

IsTemporary(word) == \E n \in 1..MaxLiteral : word = "t" \o ToString(n)

Temporaries(instructions) ==
    UNION {Range(instructions[i]) : i \in DOMAIN instructions}
        \cap {"t" \o ToString(n) : n \in 1..MaxLiteral}

\* the instruction that computes with operator op comes before the one with op2
ComputedBefore(instructions, op, op2) ==
    \E i, j \in DOMAIN instructions :
        /\ i < j
        /\ Len(instructions[i]) = 5 /\ instructions[i][4] = op
        /\ Len(instructions[j]) = 5 /\ instructions[j][4] = op2

\* C11: the program `int x; x = 2 + 3 * 4; cout << x;` is analysed with zero
\* diagnostics, is lowered to TAC with exactly two temporaries, the one for *
\* computed before the one for +, and its run prints the single line "14".
C11_EndToEnd ==
    (ast = PrecedenceProgram /\ phase = "finished") =>
        /\ get_errors(error_reporter) = <<>>
        /\ Cardinality(Temporaries(generator.instructions)) = 2
        /\ ComputedBefore(generator.instructions, "*", "+")
        /\ vm.output_lines = << <<"14">> >>
        /\ vm.ret = <<"14">>

\* the statement of a control-flow program, in the annotated tree
TopStatement == annotated_ast.hijos[1].hijos[3]

IsListaSentencias(h) == h.tipo = "LISTA_SENTENCIAS"

\* the LISTA_SENTENCIAS among the given children, None if there is none
BranchOf(hijos) ==
    LET listas == SelectSeq(hijos, IsListaSentencias)
    IN IF listas = <<>> THEN None ELSE listas[1]

\* the then-branch of an if node, and its else-branch (None without an else)
ThenBranch(node) == BranchOf(node.hijos)

ElseBranch(node) ==
    LET elses == SelectSeq(node.hijos, IsElseNode)
    IN IF elses = <<>> THEN None ELSE BranchOf(elses[1].hijos)

\* what lowering a branch emits, and the generator's counters afterwards, from
\* a generator with the given counters
BranchLowering(temp_count, label_count, branch) ==
    _gen_stmt([instructions |-> <<>>, temp_count |-> temp_count,
               label_count |-> label_count], branch)

LabelsOf(instructions) ==
    {instructions[i][2] : i \in {j \in DOMAIN instructions :
                                    StartsWith(instructions[j], "LABEL")}}

\* the instruction list of an if lowered from a fresh generator, as the
\* specification orders it
IsIfLowering(instructions, node) ==
    LET cond == _gen_expr(TACGenerator_init, node.hijos[1])
        then == BranchLowering(cond.self.temp_count, 2, ThenBranch(node))
        else == BranchLowering(then.temp_count, then.label_count, ElseBranch(node))
    IN \E else_label, end_label \in LabelsOf(instructions) :
          /\ else_label # end_label
          /\ {else_label, end_label}
                 \cap (LabelsOf(then.instructions) \cup LabelsOf(else.instructions)) = {}
          /\ instructions =
                cond.self.instructions
                  \o << <<"IF_FALSE", cond.ret, "GOTO", else_label>> >>
                  \o then.instructions
                  \o << <<"GOTO", end_label>>, <<"LABEL", else_label>> >>
                  \o else.instructions
                  \o << <<"LABEL", end_label>> >>
          /\ Cardinality(LabelsOf(instructions))
                = 2 + Cardinality(LabelsOf(then.instructions))
                    + Cardinality(LabelsOf(else.instructions))

\* C12: an if is lowered to, in this order: the condition's instructions,
\* IF_FALSE <condition place> GOTO <else label>, the then-branch instructions,
\* GOTO <end label>, LABEL <else label>, the else-branch instructions if there is
\* an else, LABEL <end label>; the two labels are distinct and are the only ones
\* the if itself allocates (so without an else the two LABELs are adjacent).
C12_IfLowering ==
    (phase = "generated" /\ TopStatement.tipo = "SELECCION") =>
        IsIfLowering(generator.instructions, TopStatement)

\* the condition of a while lowered from a fresh generator (its two labels are
\* allocated first), and its body
WhileCondition(node) ==
    _gen_expr([TACGenerator_init EXCEPT !.label_count = 2], node.hijos[1])

WhileBody(node) ==
    BranchLowering(WhileCondition(node).self.temp_count, 2, BranchOf(node.hijos))

\* pc (from 0) of the IF_FALSE of the while, of the GOTO that closes its body,
\* and the pcs of its body
TestAt(node) == 1 + Len(WhileCondition(node).self.instructions)

BackAt(node) == TestAt(node) + Len(WhileBody(node).instructions) + 1

BodyRange(node) == (TestAt(node) + 1)..(BackAt(node) - 1)

\* the instruction list of a while lowered from a fresh generator, as the
\* specification orders it
IsWhileLowering(instructions, node) ==
    LET cond == WhileCondition(node)
        body == WhileBody(node)
    IN \E start_label, end_label \in LabelsOf(instructions) :
          /\ start_label # end_label
          /\ {start_label, end_label} \cap LabelsOf(body.instructions) = {}
          /\ instructions =
                << <<"LABEL", start_label>> >>
                  \o cond.self.instructions
                  \o << <<"IF_FALSE", cond.ret, "GOTO", end_label>> >>
                  \o body.instructions
                  \o << <<"GOTO", start_label>>, <<"LABEL", end_label>> >>

IsWhileProgram == annotated_ast # None /\ TopStatement.tipo = "ITERACION"

\* once generated, the TAC of a while is LABEL start, condition, IF_FALSE,
\* body, GOTO start, LABEL end; and while the condition `a < 0` of a program
\* that starts with a = 0 is false, nothing of the body has run
WhileLowered ==
    (IsWhileProgram /\ phase \in {"generated", "running", "finished"}) =>
        /\ IsWhileLowering(generator.instructions, TopStatement)
        /\ (phase # "generated" /\ TopStatement.hijos[1].hijos[2].hijos[1].valor = "0")
              => /\ vm.pc \notin BodyRange(TopStatement) \cup {BackAt(TopStatement)}
                 /\ \A i \in DOMAIN vm.mem :
                       vm.mem[i].key = <<WhileCondition(TopStatement).ret>>

\* a step of run(): the body is entered only from the IF_FALSE, with a true
\* condition; the IF_FALSE is reached only from the instruction before it, which
\* ends the computation of the condition; the GOTO after the body leads to
\* LABEL start
WhileStep ==
    (IsWhileProgram /\ phase = "running" /\ phase' = "running") =>
        /\ (vm.pc \notin BodyRange(TopStatement) /\ vm'.pc \in BodyRange(TopStatement))
              => /\ vm.pc = TestAt(TopStatement)
                 /\ vm'.pc = TestAt(TopStatement) + 1
                 /\ IsTruthy(_eval_operand(vm, <<WhileCondition(TopStatement).ret>>))
        /\ (vm'.pc = TestAt(TopStatement) /\ vm.pc # vm'.pc)
              => vm.pc = TestAt(TopStatement) - 1
        /\ vm.pc = BackAt(TopStatement) => vm'.pc = 0

\* C13: a while is lowered to, in this order: LABEL <start>, the condition's
\* instructions, IF_FALSE <condition place> GOTO <end>, the body instructions,
\* GOTO <start>, LABEL <end>; when run, the condition is computed again before
\* every test, the body is entered only after a test that found it true, and the
\* body runs zero times when the condition is false at first.
C13_WhileLowering == []WhileLowered /\ [][WhileStep]_vars

C13_Witness ==
    /\ IsWhileProgram
    /\ phase = "finished"
    /\ BodyRange(TopStatement) # {}
    /\ DictHas(vm.mem, <<"a">>)
    /\ DictGet(vm.mem, <<"a">>) = PyInt(2)

(***************************************************************************)
(* Claims about the interpreter (checked under SpecTac).                    *)
(***************************************************************************)
CurrentInstruction == vm.instructions[vm.pc + 1]

IsPrint(inst) == StartsWith(inst, "PRINT") \/ StartsWith(inst, "PRINT_STR")

\* the text a print instruction prints: the text of PRINT_STR without its
\* quotes, the value of the place of PRINT as Python writes it
PrintedText(inst) ==
    IF inst[1] = "PRINT_STR"
    THEN (IF inst[2] = Quote /\ inst[Len(inst)] = Quote
          THEN SubSeq(inst, 3, Len(inst) - 1)
          ELSE Tail(inst))
    ELSE <<PyStr(IF DictHas(vm.mem, Tail(inst))
                 THEN DictGet(vm.mem, Tail(inst))
                 ELSE _parse_number(inst[2]))>>

\* the output log and the callback's log agree; run() returns the log joined by
\* newlines; `t1 = 3 + 4`, `PRINT t1` returns the single line "7"
OutputReturned ==
    phase \in {"running", "finished"} =>
        /\ vm.written = IF vm.write_func THEN vm.output_lines ELSE <<>>
        /\ phase = "finished" =>
              /\ vm.ret = Join(vm.output_lines, "\n")
              /\ vm.instructions = << <<"t1", "=", "3", "+", "4">>, <<"PRINT", "t1">> >>
                    => vm.ret = <<"7">>

\* a step of run(): a print instruction adds its text once to the output log and
\* calls the write callback once with it; no other instruction prints
OutputStep ==
    (phase = "running" /\ vm'.pc # vm.pc) =>
        IF IsPrint(CurrentInstruction)
        THEN /\ vm'.output_lines = Append(vm.output_lines, PrintedText(CurrentInstruction))
             /\ vm.write_func
                   => vm'.written = Append(vm.written, PrintedText(CurrentInstruction))
        ELSE /\ vm'.output_lines = vm.output_lines
             /\ vm'.written = vm.written

\* C14: run() returns the texts of the executed PRINT / PRINT_STR instructions
\* in execution order joined by newlines ("7" for `t1 = 3 + 4`, `PRINT t1`), and
\* the injected write callback is called exactly once per executed print
\* instruction, with the same text, in the same order.
C14_OutputLog == []OutputReturned /\ [][OutputStep]_vars

C14_Witness ==
    /\ phase = "finished"
    /\ vm.write_func
    /\ vm.instructions = << <<"t1", "=", "3", "+", "4">>, <<"PRINT", "t1">>,
                            <<"PRINT_STR", Quote, "hola mundo", Quote>> >>
    /\ vm.written = << <<"7">>, <<"hola mundo">> >>
    /\ Len(vm.ret) = 3

\* the instruction is `x = a / z` or `x = a % z`
IsDivision(inst) == Len(inst) = 5 /\ inst[2] = "=" /\ inst[4] \in {"/", "%"}

\* the divisor is zero: the literal 0 or 0.0, or a variable holding 0
ZeroDivisor(inst) ==
    \/ inst[5] \in {"0", "0.0"}
    \/ /\ DictHas(vm.mem, <<inst[5]>>)
       /\ DictGet(vm.mem, <<inst[5]>>).num = 0

DivisionByZeroStep ==
    (/\ phase = "running"
     /\ vm.pc < Len(vm.instructions)
     /\ IsDivision(CurrentInstruction)
     /\ ZeroDivisor(CurrentInstruction))
        => /\ vm' # vm
           /\ phase' = "running"
           /\ vm'.raised = None
           /\ DictGet(vm'.mem, <<CurrentInstruction[1]>>) = PyInt(0)
           /\ vm'.pc = vm.pc + 1

\* C15: for every left operand a, executing `x = a / 0` or `x = a % 0` (zero as
\* a literal or as a variable holding 0) stores 0 in x, raises no error, and
\* execution continues with the next instruction.
C15_DivisionByZero == [][DivisionByZeroStep]_vars

C15_Witness ==
    /\ phase = "finished"
    /\ vm.instructions = << <<"READ", "y">>, <<"x", "=", "2.5", "%", "y">>,
                            <<"PRINT", "x">> >>
    /\ DictGet(vm.mem, <<"y">>) = PyInt(0)
    /\ DictGet(vm.mem, <<"x">>) = PyInt(0)
    /\ vm.ret = <<"0">>

(***************************************************************************)
(* Claims about the diagnostics store (checked under SpecReporter).         *)
(***************************************************************************)
\* the ordinal a diagnostic was added with: the first character of its message
Ordinal(text) == CHOOSE n \in 1..9 : ToString(n) = SubSeq(text, 1, 1)

SamePosition(a, b) == a.line = b.line /\ a.column = b.column

\* C16: the report lists the diagnostics by (line, column), and diagnostics
\* with equal (line, column) in the order in which they were added, for any
\* sequence of add_error / add_warning calls, whatever their severities.
C16_StableOrder ==
    (last_call.op = "format_errors" /\ last_call.ret # NoErrorsText) =>
        LET rows == last_call.ret.rows
        IN /\ Len(rows) = Len(error_reporter.errors) + Len(error_reporter.warnings)
           /\ \A i, j \in DOMAIN rows :
                 i < j => /\ ~KeyLess(rows[j], rows[i])
                          /\ SamePosition(rows[i], rows[j])
                                => Ordinal(rows[i].descripcion) < Ordinal(rows[j].descripcion)

ErrorAdded(er) == \E d \in Range(get_all_issues(er)) : d.severity = "error"

\* has_errors() is true iff a diagnostic of severity error is in the store
HasErrorsIffErrorAdded ==
    /\ has_errors(error_reporter) <=> ErrorAdded(error_reporter)
    /\ last_call.op = "has_errors"
          => last_call.ret = RetBool(ErrorAdded(error_reporter))

\* a call other than clear() keeps what the two lists hold as a prefix; an added
\* warning leaves has_errors() as it was; emptying the list get_errors()
\* returned leaves the store as it was
AppendOnlyStep ==
    /\ last_call'.op # "clear"
          => /\ IsPrefix(error_reporter.errors, error_reporter'.errors)
             /\ IsPrefix(error_reporter.warnings, error_reporter'.warnings)
    /\ last_call'.op = "add_error" => has_errors(error_reporter')
    /\ last_call'.op = "add_warning"
          => has_errors(error_reporter') = has_errors(error_reporter)
    /\ last_call'.op = "returned.clear" => error_reporter' = error_reporter

\* C17: the store is append-only as long as clear() is not called (what a list
\* held stays a prefix of what it holds later), has_errors() is true iff a
\* diagnostic of severity error has been added (warnings alone leave it false),
\* and changing the list returned by get_errors() does not change the store.
C17_AppendOnly == []HasErrorsIffErrorAdded /\ [][AppendOnlyStep]_vars

C17_Witness ==
    /\ last_call.op = "returned.clear"
    /\ last_call.ret.items = <<>>
    /\ Len(error_reporter.errors) = 2
    /\ Len(error_reporter.warnings) = 1
    /\ has_errors(error_reporter)

(***************************************************************************)
(* Claims about trees the parser never builds (checked under SpecMalformed) *)
(***************************************************************************)
\* C18: analyze() without a tree returns no annotated tree, a symbol table with
\* no symbols and only the global scope, and a diagnostics list holding exactly
\* one analysis_error diagnostic; none of the phases runs.
C18_NullTree ==
    ast = None =>
        /\ phase \in {"fase1", "done"}
        /\ phase = "done" =>
              /\ Returned.annotated_ast = None
              /\ get_all_symbols(Returned.symbol_table) = <<>>
              /\ Returned.symbol_table.scopes = <<"global_0">>
              /\ Returned.symbol_table.memory_counter = MEMORY_BASE
              /\ Len(Returned.errors) = 1
              /\ Returned.errors[1].error_type = "analysis_error"
              /\ Returned.errors[1].severity = "error"
              /\ error_reporter.warnings = <<>>

C18_Witness ==
    /\ ast = None
    /\ phase = "done"
    /\ Len(error_reporter.errors) = 1
    /\ annotated_ast = None

\* the '=' nodes of the statement list that have fewer than two children
MalformedNodes ==
    {k \in DOMAIN ast.hijos[1].hijos :
        /\ ast.hijos[1].hijos[k].tipo = "="
        /\ Len(ast.hijos[1].hijos[k].hijos) < 2}

\* a diagnostic placed at the node
DiagnosticAt(node) ==
    \E d \in Range(get_all_issues(error_reporter)) :
        d.line = node.linea /\ d.column = node.columna

\* C19: analysing a tree that holds a '=' node with fewer than two children
\* raises no exception (no analysis_error is recorded), returns an annotated
\* tree, and the diagnostics hold a diagnostic for that '=' node.
C19_MalformedAssignment ==
    (phase = "done" /\ ast # None) =>
        /\ annotated_ast # None
        /\ \A d \in Range(get_all_issues(error_reporter)) : d.error_type # "analysis_error"
        /\ \A k \in MalformedNodes : DiagnosticAt(ast.hijos[1].hijos[k])

(***************************************************************************)
(* The is_initialized flag (checked under SpecAssignment).                  *)
(***************************************************************************)
ValidAssignment(tree) ==
    ValueType(tree) = DeclaredType(tree) \/ Promotes(ValueType(tree), DeclaredType(tree))

\* C20: when analyze() has returned, the symbol of a declared variable that is
\* the target of a type-valid assignment has is_initialized = true, and the
\* symbol of a variable without one has is_initialized = false.
C20_InitializedFlag ==
    (phase = "done" /\ ast # None) =>
        \A s \in Range(get_all_symbols(symbol_table)) :
            s.name = AssignedVariable(ast) => (s.is_initialized <=> ValidAssignment(ast))

(***************************************************************************)
(* The counts by type (checked under SpecReporter, where the store holds    *)
(* every diagnostic added since construction or the last clear()).          *)
(***************************************************************************)
AddedWithType(er, error_type) ==
    Cardinality({i \in DOMAIN get_all_issues(er) :
                    get_all_issues(er)[i].error_type = error_type})

\* C21: get_error_count_by_type(t) is the number of diagnostics added with
\* error_type t since construction or the last clear(), for every error type
\* passed to add_error.
C21_CountByType ==
    \A t \in IssueTypes :
        get_error_count_by_type(error_reporter, t) = AddedWithType(error_reporter, t)

(***************************************************************************)
(* Scope-stack balance (checked under SpecScoping).                         *)
(***************************************************************************)
\* C22: every scope pushed for an if / while / do-until node during analysis
\* is popped again: when analyze() has returned, the scope stack of the symbol
\* table holds only the global scope.
C22_ScopeBalance ==
    (phase = "done" /\ ast # None) => symbol_table.scopes = <<"global_0">>

(***************************************************************************)
(* Operators on the wrong type class (checked under SpecOperators).         *)
(***************************************************************************)
Operation == ast.hijos[1].hijos[1]

LiteralType(node) ==
    CASE node.tipo = "NUM_INT" -> TIPO_INT
      [] node.tipo = "NUM_FLOAT" -> TIPO_FLOAT
      [] node.tipo = "BOOLEANO" -> TIPO_BOOLEAN

LeftType == LiteralType(Operation.hijos[1])

RightType == LiteralType(Operation.hijos[2])

Reported(error_type) ==
    \E d \in Range(get_all_issues(error_reporter)) : d.error_type = error_type

ModuloOnFloat == Operation.tipo = "%" /\ TIPO_FLOAT \in {LeftType, RightType}

LogicalOnNumber ==
    Operation.tipo \in LogicalOps /\ {LeftType, RightType} \cap {TIPO_INT, TIPO_FLOAT} # {}

RelationalOnIncompatible ==
    /\ Operation.tipo \in RelationalOps
    /\ LeftType # RightType
    /\ ~Promotes(LeftType, RightType)
    /\ ~Promotes(RightType, LeftType)

\* C23: when analyze() has returned, `%` with a float operand and `&&` / `||`
\* with a numeric operand have a diagnostic of type operator_misuse, and a
\* relational operator with incompatible operands has one of type
\* type_incompatibility.
C23_OperatorMisuse ==
    phase = "done" =>
        /\ ModuloOnFloat => Reported("operator_misuse")
        /\ LogicalOnNumber => Reported("operator_misuse")
        /\ RelationalOnIncompatible => Reported("type_incompatibility")

(***************************************************************************)
(* Identifier resolution (checked under SpecScoping).                       *)
(***************************************************************************)
\* the annotated ID nodes that are not the identifier of a declaration, each
\* with the lines of the constructs around it
RECURSIVE AnnotatedUses(_, _, _)
AnnotatedUses(node, path, in_decl) ==
    (IF node.tipo = "ID" /\ ~in_decl
     THEN {[name |-> node.valor, line |-> node.linea, column |-> node.columna,
            path |-> path, semantic_type |-> node.semantic_type,
            symbol_ref |-> node.symbol_ref]}
     ELSE {})
      \cup UNION {AnnotatedUses(node.hijos[i],
                                IF node.tipo \in ScopeKinds
                                THEN Append(path, node.linea)
                                ELSE path,
                                in_decl \/ node.tipo = "DECLARACION_VARIABLE") :
                   i \in DOMAIN node.hijos}

\* the declarations of the name in a scope around the use
VisibleDeclarations(use) ==
    {d \in Declarations(ast) : d.name = use.name /\ IsPrefix(d.path, use.path)}

UndeclaredDiagnostics(use) ==
    {i \in DOMAIN error_reporter.errors :
        /\ error_reporter.errors[i].error_type = "undeclared_variable"
        /\ error_reporter.errors[i].line = use.line
        /\ error_reporter.errors[i].column = use.column}

\* C24: when analyze() has returned, an identifier no visible scope declares
\* has one undeclared_variable diagnostic at its line and column and its
\* annotated node has neither a type nor a symbol reference; a declared
\* identifier has no such diagnostic and its annotated node carries the symbol
\* and the symbol's type.
C24_IdentifierResolution ==
    (phase = "done" /\ ast # None) =>
        \A use \in AnnotatedUses(annotated_ast, <<>>, FALSE) :
            IF VisibleDeclarations(use) = {}
            THEN /\ Cardinality(UndeclaredDiagnostics(use)) = 1
                 /\ use.semantic_type = None
                 /\ use.symbol_ref = None
            ELSE /\ UndeclaredDiagnostics(use) = {}
                 /\ use.symbol_ref # None
                 /\ use.symbol_ref.name = use.name
                 /\ use.semantic_type = use.symbol_ref.type_info

(***************************************************************************)
(* Lowering of expressions (checked under SpecLowering).                    *)
(***************************************************************************)
\* a call of _gen_expr on a literal or an identifier leaves the generator as
\* it was and returns the text of the node
LeafLoweringStep ==
    (/\ last_call'.op = "_gen_expr"
     /\ last_call'.params.node.tipo \in {"NUM_INT", "NUM_FLOAT", "BOOLEANO", "ID"})
        => /\ generator' = generator
           /\ last_call'.ret = RetStr(last_call'.params.node.valor)

\* C25: lowering an integer, float or boolean literal or an identifier emits
\* no instruction and returns the literal text / the variable name as its
\* place.
C25_LeafPlaces == [][LeafLoweringStep]_vars

(***************************************************************************)
(* Fresh names (checked under SpecPipeline).                                *)
(***************************************************************************)
Emitted == generator.instructions

\* the instructions whose destination is the temporary
DefinitionsOf(temp) ==
    {i \in DOMAIN Emitted : Emitted[i][1] = temp /\ Emitted[i][2] = "="}

LabelDefinitions(label) == {i \in DOMAIN Emitted : Emitted[i] = <<"LABEL", label>>}

\* the labels the GOTO and IF_FALSE instructions name
JumpTargets ==
    {Emitted[i][2] : i \in {j \in DOMAIN Emitted : StartsWith(Emitted[j], "GOTO")}}
      \cup {Emitted[i][4] :
               i \in {j \in DOMAIN Emitted : StartsWith(Emitted[j], "IF_FALSE")}}

\* C26: in the program one generate_program call emits, every temporary is the
\* destination of exactly one instruction, every LABEL name is emitted exactly
\* once, and every label a GOTO or IF_FALSE names is defined by exactly one
\* LABEL instruction.
C26_FreshNames ==
    phase = "generated" =>
        /\ \A temp \in Temporaries(Emitted) : Cardinality(DefinitionsOf(temp)) = 1
        /\ \A label \in LabelsOf(Emitted) : Cardinality(LabelDefinitions(label)) = 1
        /\ \A label \in JumpTargets : Cardinality(LabelDefinitions(label)) = 1

C26_Witness ==
    /\ phase = "generated"
    /\ Cardinality(Temporaries(Emitted)) >= 3
    /\ Cardinality(LabelsOf(Emitted)) >= 4
    /\ Cardinality(JumpTargets) >= 4

(***************************************************************************)
(* Claims about the control flow of run() (checked under SpecTac).          *)
(***************************************************************************)
\* the indexes (from 0) of the LABEL instructions that define a label
LabelIndexes(label) ==
    {i \in 0..(Len(vm.instructions) - 1) : vm.instructions[i + 1] = <<"LABEL">> \o label}

\* where a jump to the label leads: the index of its LABEL instruction (of the
\* last one when the program repeats it), the length of the program if it has none
JumpIndex(label) ==
    IF LabelIndexes(label) = {} THEN Len(vm.instructions)
    ELSE CHOOSE i \in LabelIndexes(label) : \A j \in LabelIndexes(label) : j <= i

\* the operand evaluates to 0: a variable holding 0, a name never assigned, or
\* a literal zero
OperandIsZero(operand) ==
    IF DictHas(vm.mem, operand) THEN DictGet(vm.mem, operand).num = 0
    ELSE _parse_number(operand[1]).num = 0

\* a turn of the loop of run() that executes an instruction to its end
Executes ==
    /\ phase = "running"
    /\ vm.pc < Len(vm.instructions)
    /\ phase' = "running"

ControlFlowStep ==
    Executes =>
        IF CurrentInstruction[1] = "GOTO"
        THEN vm'.pc = JumpIndex(Tail(CurrentInstruction))
        ELSE IF CurrentInstruction[1] = "IF_FALSE"
        THEN (IF OperandIsZero(<<CurrentInstruction[2]>>)
              THEN vm'.pc = JumpIndex(<<CurrentInstruction[4]>>)
              ELSE vm'.pc = vm.pc + 1)
        ELSE vm'.pc = vm.pc + 1

\* a jump to a label without LABEL instruction is the last turn of the loop
UndefinedLabelEnds ==
    (/\ Executes
     /\ \/ CurrentInstruction[1] = "GOTO" /\ LabelIndexes(Tail(CurrentInstruction)) = {}
        \/ /\ CurrentInstruction[1] = "IF_FALSE"
           /\ OperandIsZero(<<CurrentInstruction[2]>>)
           /\ LabelIndexes(<<CurrentInstruction[4]>>) = {})
        => /\ vm'.pc = Len(vm.instructions)
           /\ vm'.instructions = vm.instructions

RECURSIVE ContainsWhile(_)
ContainsWhile(node) ==
    node.tipo = "ITERACION" \/ \E i \in DOMAIN node.hijos : ContainsWhile(node.hijos[i])

WhileFree == ast # None /\ ~ContainsWhile(ast)

\* the instructions that jump, and the label each names
JumpsOf(instructions) ==
    {i \in DOMAIN instructions : instructions[i][1] \in {"GOTO", "IF_FALSE"}}

JumpLabel(inst) == IF inst[1] = "GOTO" THEN inst[2] ELSE inst[4]

\* every jump names a label whose LABEL instruction comes later in the program
JumpsForward(instructions) ==
    \A i \in JumpsOf(instructions) :
        \E j \in DOMAIN instructions :
            /\ instructions[j] = <<"LABEL", JumpLabel(instructions[i])>>
            /\ j > i

\* the jumps lead forward; pc is within the program; while pc is short of the
\* end the loop of run() takes another turn, at the end run() returns, and it
\* returns nowhere else
ForwardOnly ==
    WhileFree =>
        /\ phase \in {"generated", "running", "finished"}
              => JumpsForward(generator.instructions)
        /\ phase \in {"running", "finished"}
              => /\ vm.instructions = generator.instructions
                 /\ vm.pc \in 0..Len(vm.instructions)
        /\ (phase = "running" /\ vm.pc < Len(vm.instructions)) => ENABLED RunStep
        /\ (phase = "running" /\ vm.pc = Len(vm.instructions)) => ENABLED RunReturn
        /\ phase = "finished" => vm.pc = Len(vm.instructions)
        /\ phase # "raised"

\* run() starts at pc = 0 and every turn of its loop moves pc forward
ForwardStep ==
    WhileFree =>
        /\ (phase = "generated" /\ phase' = "running") => vm'.pc = 0
        /\ (phase = "running" /\ vm.pc < Len(vm.instructions))
              => /\ phase' = "running"
                 /\ vm'.pc > vm.pc
                 /\ vm'.pc <= Len(vm.instructions)

\* C28: the TAC generated from a tree without ITERACION always terminates when
\* run: every jump of the if lowering targets a label at a larger index, pc
\* starts at 0, strictly increases at every turn of the loop and stays within
\* 0..len(instructions); the loop takes a turn as long as pc is short of
\* len(instructions), so pc reaches len(instructions) after at most
\* len(instructions) turns, and then run() returns.
C28_WhileFreeTerminates == []ForwardOnly /\ [][ForwardStep]_vars

C28_Witness ==
    /\ WhileFree
    /\ phase = "finished"
    /\ Cardinality(JumpsOf(vm.instructions)) >= 4
    /\ vm.pc = Len(vm.instructions)

(***************************************************************************)
(* Claims about a failed declaration (checked under SpecTable).             *)
(***************************************************************************)
CurrentScope(st) == st.scopes[Len(st.scopes)]

\* the entry of name in the current scope
CurrentEntry(st, name) == DictGet(DictGet(st.symbols, CurrentScope(st)), name)

FailedDeclaration == last_call'.op = "declare_variable" /\ last_call'.ret = RetBool(FALSE)

FailedDeclarationStep ==
    FailedDeclaration =>
        /\ Declares(symbol_table', CurrentScope(symbol_table), last_call'.params.name)
        /\ LET before == CurrentEntry(symbol_table, last_call'.params.name)
               after == CurrentEntry(symbol_table', last_call'.params.name)
           IN /\ after.type_info = before.type_info
              /\ after.line = before.line
              /\ after.column = before.column
              /\ after.memory_address = before.memory_address
              /\ after.is_initialized = before.is_initialized
        /\ symbol_table'.memory_counter = symbol_table.memory_counter
        /\ symbol_table'.scopes = symbol_table.scopes
        /\ symbol_table' = symbol_table

\* a successful declaration gets the address the counter held before the call,
\* however many failed calls came before it
NextAddressStep ==
    (last_call'.op = "declare_variable" /\ last_call'.ret = RetBool(TRUE)) =>
        /\ CurrentEntry(symbol_table', last_call'.params.name).memory_address
              = symbol_table.memory_counter
        /\ symbol_table.memory_counter
              = MEMORY_BASE + MEMORY_STEP * Len(get_all_symbols(symbol_table))

\* C29: when declare_variable returns False, the existing entry of that name
\* keeps its type, declaration line and column, address and is_initialized
\* flag, the memory counter is not advanced (the next successful declaration
\* gets the address it would have got without the failed call), and the scope
\* stack is unchanged: the table is as it was.
C29_FailedDeclarationChangesNothing == [][FailedDeclarationStep /\ NextAddressStep]_vars

\* `float x` on line 2 failed in a nested scope against the `int x` of line 1
\* of that scope, which had been marked initialized
C29_Witness ==
    /\ last_call.op = "declare_variable"
    /\ last_call.ret = RetBool(FALSE)
    /\ last_call.params.type_info = TIPO_FLOAT
    /\ Len(symbol_table.scopes) = 2
    /\ CurrentEntry(symbol_table, last_call.params.name).type_info = TIPO_INT
    /\ CurrentEntry(symbol_table, last_call.params.name).line = 1
    /\ CurrentEntry(symbol_table, last_call.params.name).is_initialized
    /\ symbol_table.memory_counter = MEMORY_BASE + MEMORY_STEP

(***************************************************************************)
(* Claims about the do-until (checked under SpecRepeat).                    *)
(***************************************************************************)
IsRepeatProgram == annotated_ast # None /\ TopStatement.tipo = "REPETICION"

\* the body of the do-until, None when it is empty, and its condition
RepeatBody == BranchOf(TopStatement.hijos)

RepeatCondition == TopStatement.hijos[Len(TopStatement.hijos)]

\* what a fresh generator makes of the body alone
BodyAlone == generate_program(TACGenerator_init, RepeatBody)

ControlWords == {"LABEL", "GOTO", "IF_FALSE"}

CountOf(instructions, words) ==
    Cardinality({i \in DOMAIN instructions : instructions[i][1] \in words})

\* the number of SELECCION nodes in a tree
RECURSIVE CountIfs(_)
RECURSIVE CountIfsIn(_, _)
CountIfsIn(hijos, i) ==
    IF i > Len(hijos) THEN 0 ELSE CountIfs(hijos[i]) + CountIfsIn(hijos, i + 1)

CountIfs(node) == (IF node.tipo = "SELECCION" THEN 1 ELSE 0) + CountIfsIn(node.hijos, 1)

\* the SELECCION nodes of the body
BodyIfs == IF RepeatBody = None THEN 0 ELSE CountIfs(RepeatBody)

\* the instructions that compute a relational test
TestsOf(instructions) ==
    {i \in DOMAIN instructions : Len(instructions[i]) = 5 /\ instructions[i][4] = "<"}

RepeatLowered ==
    (IsRepeatProgram /\ phase \in {"generated", "running", "finished"}) =>
        /\ generator.instructions = BodyAlone.instructions
        /\ generator.temp_count = BodyAlone.temp_count
        /\ generator.label_count = BodyAlone.label_count
        /\ CountOf(generator.instructions, {"IF_FALSE"}) = BodyIfs
        /\ CountOf(generator.instructions, {"GOTO"}) = BodyIfs
        /\ CountOf(generator.instructions, {"LABEL"}) = 2 * BodyIfs
        /\ Cardinality(TestsOf(generator.instructions)) = BodyIfs
        /\ phase = "finished" => vm.pc = Len(vm.instructions)

\* run() goes through the body once: pc never moves back, and in a body
\* without an if every instruction is executed, one after the other
RepeatStep ==
    (IsRepeatProgram /\ phase = "running" /\ vm.pc < Len(vm.instructions)) =>
        /\ phase' = "running"
        /\ vm'.pc > vm.pc
        /\ BodyIfs = 0 => vm'.pc = vm.pc + 1

\* C30: lowering a REPETICION node emits the instructions of its body exactly
\* once (the program is the lowering of the body alone), no LABEL, GOTO or
\* IF_FALSE of its own and no instruction for its condition; when run, the body
\* is gone through exactly once whatever the condition evaluates to.
C30_RepeatRunsOnce == []RepeatLowered /\ [][RepeatStep]_vars

\* do a = a + 1; until a < 0: the condition is false after the body, yet run()
\* is over with a = 1
C30_Witness ==
    /\ IsRepeatProgram
    /\ phase = "finished"
    /\ RepeatCondition.hijos[2].hijos[1].valor = "0"
    /\ vm.instructions = << <<"t1", "=", "a", "+", "1">>, <<"a", "=", "t1">> >>
    /\ DictGet(vm.mem, <<"a">>) = PyInt(1)

==============================================================================
